---- MODULE Spec2Model ----
(***************************************************************************)
(* NIP-46 remote-signing engine of radrootsd: the session store, the       *)
(* remote-signer listener (handle_request and its auth-challenge gate),    *)
(* the session-management RPCs and the client correlator.                  *)
(*                                                                         *)
(* Conventions.  Option<T> is a sequence of length 0 (None) or 1 (Some).   *)
(* Strings that the code formats, trims or prefix-tests are sequences of   *)
(* tokens: a secret is a sequence of characters, a permission a sequence   *)
(* of the tokens "sign_event", ":", decimal digits and the nipXX names.    *)
(* Instant::now() is the variable now; every store call reads it under     *)
(* the store's lock.  Each action is one lock acquisition of the code (an  *)
(* await point separates two of them), so tasks interleave exactly where   *)
(* the tokio tasks can.                                                    *)
(***************************************************************************)
EXTENDS Naturals, Sequences, FiniteSets, TLC

\* ------------------------------------------------------------------ bounds
\* The clock runs from 0 to MaxTime.
MaxTime == 1
\* Events the relay delivers in one behaviour.
MaxPublished == 3
\* Notifications a receiver of the broadcast channel holds before it lags.
ChannelCapacity == 2

\* ------------------------------------------------------------ option type
None == <<>>
Some(x) == <<x>>
IsSome(o) == o # <<>>
Unwrap(o) == o[1]

\* ------------------------------------------------------------------ trim
RECURSIVE trim_start(_)
trim_start(s) ==
    IF s # <<>> /\ Head(s) = " " THEN trim_start(Tail(s)) ELSE s

RECURSIVE trim_end(_)
trim_end(s) ==
    IF s # <<>> /\ s[Len(s)] = " " THEN trim_end(SubSeq(s, 1, Len(s) - 1)) ELSE s

\* str::trim
trim(s) == trim_end(trim_start(s))

\* --------------------------------------------------------------- universe
\* The daemon's own public key (Radrootsd.pubkey) and a foreign key.
DaemonPubkey == "D"
OtherPubkey == "X"
\* Requesters of the listener: their hex pubkey is the session id.
Requesters == {"c1"}
\* Session ids generated by Uuid::new_v4 for client sessions.
Uuids == {"u1"}
SessionIds == Requesters \cup Uuids
RequestIds == {"r1"}
AuthUrls == {<<"h">>, <<" ">>}
\* Connect secrets as character sequences; " " is the whitespace trim removes.
Secrets == {<<" ">>, <<"a">>, <<"a", " ">>}
TrimmedSecrets == {trim(x) : x \in Secrets}
\* Event kinds a SignEvent request may carry.
Kinds == {1, 14}
\* Operator-configured allow-lists (Nip46Config.perms) the model starts from.
\* with the session TTL (Nip46Config.session_ttl_secs; 0 = never expires).
Nip46Config(session_ttl_secs, perms) ==
    [session_ttl_secs |-> session_ttl_secs, perms |-> perms]
Configs ==
    { Nip46Config(1, <<>>),
      Nip46Config(0, << <<"sign_event">>, <<"nip44_decrypt">> >>),
      Nip46Config(1, << <<"sign_event", ":", "1">>, <<"nip04_encrypt">> >>) }

\* ------------------------------------------------------------ pure helpers
Digit(d) ==
    CASE d = 0 -> "0" [] d = 1 -> "1" [] d = 2 -> "2" [] d = 3 -> "3" [] d = 4 -> "4"
      [] d = 5 -> "5" [] d = 6 -> "6" [] d = 7 -> "7" [] d = 8 -> "8" [] d = 9 -> "9"

\* Display of an unsigned integer: its decimal digits, no leading zero.
RECURSIVE to_string(_)
to_string(n) ==
    IF n < 10 THEN <<Digit(n)>> ELSE Append(to_string(n \div 10), Digit(n % 10))

\* iter().any(|entry| entry == x)
Contains(seq, x) == \E i \in 1..Len(seq) : seq[i] = x

starts_with(s, prefix) ==
    Len(s) >= Len(prefix) /\ SubSeq(s, 1, Len(prefix)) = prefix

\* ------------------------------------------------- core/nip46/session.rs
\* A closure by which a kind-scoped grant implies the blanket one.
perm_passes_reversed(perm, allowed) ==
    \/ Contains(allowed, perm)
    \/ /\ \E i \in 1..Len(allowed) : starts_with(allowed[i], <<"sign_event">>)
       /\ starts_with(perm, <<"sign_event">>)

\* The closure of filter_perms' filter_map: whether perm is kept.
perm_passes(perm, allowed) ==
    \/ Contains(allowed, perm)
    \/ /\ Contains(allowed, <<"sign_event">>)
       /\ starts_with(perm, <<"sign_event", ":">>)

\* requested.iter().filter_map(..).collect()
RECURSIVE filter_map(_, _)
filter_map(requested, allowed) ==
    IF requested = <<>> THEN <<>>
    ELSE IF perm_passes(Head(requested), allowed)
         THEN <<Head(requested)>> \o filter_map(Tail(requested), allowed)
         ELSE filter_map(Tail(requested), allowed)

\* filter_perms granting whatever is requested.
filter_perms_all(requested, allowed) == requested

filter_perms(requested, allowed) ==
    IF allowed = <<>> THEN <<>> ELSE filter_map(requested, allowed)

\* sign_event_allowed matching the entry as a prefix.
sign_event_allowed_prefix(perms, kind) ==
    IF Contains(perms, <<"sign_event">>) THEN TRUE
    ELSE LET entry == <<"sign_event", ":">> \o to_string(kind)
         IN \E i \in 1..Len(perms) : starts_with(perms[i], entry)

\* sign_event_allowed without its test.
sign_event_allowed_any(perms, kind) == TRUE
sign_event_allowed(perms, kind) ==
    IF Contains(perms, <<"sign_event">>) THEN TRUE
    ELSE LET entry == <<"sign_event", ":">> \o to_string(kind)
         IN Contains(perms, entry)

\* session_expires_at without the ttl_secs == 0 case.
session_expires_at_always(ttl_secs, t) == Some(t + ttl_secs)
session_expires_at(ttl_secs, t) ==
    IF ttl_secs = 0 THEN None ELSE Some(t + ttl_secs)

\* is_expired with < for <=.
is_expired_strict(session, t) ==
    IF IsSome(session.expires_at) THEN Unwrap(session.expires_at) < t ELSE FALSE
\* is_expired taking a session without expires_at for expired.
is_expired_without_forever(session, t) ==
    IF IsSome(session.expires_at) THEN Unwrap(session.expires_at) <= t ELSE TRUE
\* Nip46Session::is_expired, with t the value of Instant::now()
is_expired(session, t) ==
    IF IsSome(session.expires_at) THEN Unwrap(session.expires_at) <= t ELSE FALSE

\* HashMap::new
EmptyMap == [i \in {} |-> None]
\* HashMap::remove on the session map
MapRemove(ss, id) == [i \in DOMAIN ss \ {id} |-> ss[i]]
\* HashMap::insert on the session map
MapInsert(ss, id, session) ==
    [i \in DOMAIN ss \cup {id} |-> IF i = id THEN session ELSE ss[i]]

\* Every store method below is the body run under one acquisition of the
\* store's lock: it maps the map ss (and the clock t) to the map it leaves
\* and the value it returns.
\* insert into a map that is emptied first.
insert_alone(ss, session) == [store |-> MapInsert(EmptyMap, session.id, session), result |-> TRUE]
insert(ss, session) == [store |-> MapInsert(ss, session.id, session), result |-> TRUE]

get(ss, id, t) ==
    LET expired == IF id \in DOMAIN ss THEN is_expired(ss[id], t) ELSE FALSE
    IN IF expired THEN [store |-> MapRemove(ss, id), result |-> None]
       ELSE [store |-> ss,
             result |-> IF id \in DOMAIN ss THEN Some(ss[id]) ELSE None]

remove(ss, id) == [store |-> MapRemove(ss, id), result |-> id \in DOMAIN ss]

set_user_pubkey(ss, id, pubkey, t) ==
    IF id \in DOMAIN ss
    THEN IF is_expired(ss[id], t)
         THEN [store |-> MapRemove(ss, id), result |-> FALSE]
         ELSE [store |-> [ss EXCEPT ![id].user_pubkey = Some(pubkey)], result |-> TRUE]
    ELSE [store |-> ss, result |-> FALSE]

\* require_auth without auth_required = true.
require_auth_keeps_flag(ss, id, auth_url, t) ==
    IF id \in DOMAIN ss
    THEN IF is_expired(ss[id], t)
         THEN [store |-> MapRemove(ss, id), result |-> FALSE]
         ELSE [store |-> [ss EXCEPT ![id].authorized = FALSE,
                                    ![id].auth_url = Some(auth_url),
                                    ![id].pending_request = None],
               result |-> TRUE]
    ELSE [store |-> ss, result |-> FALSE]
\* require_auth that leaves the pending request where it is.
require_auth_keeps_pending(ss, id, auth_url, t) ==
    IF id \in DOMAIN ss
    THEN IF is_expired(ss[id], t)
         THEN [store |-> MapRemove(ss, id), result |-> FALSE]
         ELSE [store |-> [ss EXCEPT ![id].auth_required = TRUE,
                                    ![id].authorized = FALSE,
                                    ![id].auth_url = Some(auth_url)],
               result |-> TRUE]
    ELSE [store |-> ss, result |-> FALSE]

require_auth(ss, id, auth_url, t) ==
    IF id \in DOMAIN ss
    THEN IF is_expired(ss[id], t)
         THEN [store |-> MapRemove(ss, id), result |-> FALSE]
         ELSE [store |-> [ss EXCEPT ![id].auth_required = TRUE,
                                    ![id].authorized = FALSE,
                                    ![id].auth_url = Some(auth_url),
                                    ![id].pending_request = None],
               result |-> TRUE]
    ELSE [store |-> ss, result |-> FALSE]

\* authorize reading the pending request without take().
authorize_keeps_pending(ss, id, t) ==
    IF id \in DOMAIN ss
    THEN IF is_expired(ss[id], t)
         THEN [store |-> MapRemove(ss, id), result |-> None]
         ELSE [store |-> [ss EXCEPT ![id].authorized = TRUE],
               result |-> Some([pending |-> ss[id].pending_request])]
    ELSE [store |-> ss, result |-> None]
\* result: Option<Nip46AuthorizeOutcome>
authorize(ss, id, t) ==
    IF id \in DOMAIN ss
    THEN IF is_expired(ss[id], t)
         THEN [store |-> MapRemove(ss, id), result |-> None]
         ELSE [store |-> [ss EXCEPT ![id].authorized = TRUE,
                                    ![id].pending_request = None],
               result |-> Some([pending |-> ss[id].pending_request])]
    ELSE [store |-> ss, result |-> None]

\* set_pending_request through the map's entry API: an absent id gets a new
\* session that holds the request.
set_pending_request_upsert(ss, id, pending, t) ==
    IF id \in DOMAIN ss
    THEN IF is_expired(ss[id], t)
         THEN [store |-> MapRemove(ss, id), result |-> FALSE]
         ELSE [store |-> [ss EXCEPT ![id].pending_request = Some(pending)],
               result |-> TRUE]
    ELSE [store |-> MapInsert(ss, id,
                       [id |-> id, client_pubkey |-> pending.client_pubkey,
                        remote_signer_pubkey |-> "D", user_pubkey |-> None,
                        perms |-> <<>>, expires_at |-> None, auth_required |-> TRUE,
                        authorized |-> FALSE, auth_url |-> None,
                        pending_request |-> Some(pending)]),
          result |-> TRUE]

set_pending_request(ss, id, pending, t) ==
    IF id \in DOMAIN ss
    THEN IF is_expired(ss[id], t)
         THEN [store |-> MapRemove(ss, id), result |-> FALSE]
         ELSE [store |-> [ss EXCEPT ![id].pending_request = Some(pending)],
               result |-> TRUE]
    ELSE [store |-> ss, result |-> FALSE]

\* Ascending sequence of a finite set of session ids ("c1" < "c2" < "u1").
IdRank(id) == CASE id = "c1" -> 1 [] id = "c2" -> 2 [] id = "u1" -> 3
RECURSIVE SortIds(_)
SortIds(S) ==
    IF S = {} THEN <<>>
    ELSE LET m == CHOOSE x \in S : \A y \in S : IdRank(x) <= IdRank(y)
         IN <<m>> \o SortIds(S \ {m})

\* list without its retain: every session is returned and kept.
list_without_retain(ss, t) ==
    LET order == SortIds(DOMAIN ss)
    IN [store |-> ss, result |-> [k \in 1..Len(order) |-> ss[order[k]]]]

list(ss, t) ==
    LET kept == {i \in DOMAIN ss : ~is_expired(ss[i], t)}
        retained == [i \in kept |-> ss[i]]
        order == SortIds(kept)
    IN [store |-> retained, result |-> [k \in 1..Len(order) |-> retained[order[k]]]]

\* Nip46SessionStore::claim_secret: check-and-insert into the used-secrets
\* set under one lock acquisition.
claim_secret(used, secret) ==
    [used |-> used \cup {secret}, result |-> secret \notin used]


\* ------------------------------------------------------- protocol values
\* NostrConnectRequest, with the fields the dispatch reads: the signer key of
\* Connect and the author of the unsigned event share pubkey.
Request(method, pubkey, kind, secret) ==
    [method |-> method, pubkey |-> pubkey, kind |-> kind, secret |-> secret]
NoRequest == Request("none", "", 0, None)

CryptoMethods == {"nip04_encrypt", "nip04_decrypt", "nip44_encrypt", "nip44_decrypt"}
GatedMethods == {"sign_event"} \cup CryptoMethods

Requests ==
    {Request("connect", k, 0, None) : k \in {DaemonPubkey, OtherPubkey}}
    \cup {Request("connect", k, 0, Some(x)) : k \in {DaemonPubkey, OtherPubkey}, x \in Secrets}
    \cup {Request("sign_event", DaemonPubkey, n, None) : n \in Kinds}
    \cup {Request("sign_event", OtherPubkey, 1, None)}
    \cup {Request(m, OtherPubkey, 0, None) : m \in CryptoMethods \cup {"get_public_key", "ping"}}

\* ResponseResult: its variant and, for GetPublicKey and SignEvent, the key
\* and the kind of the value it carries.
ResponseResult(tag, pubkey, kind) == [tag |-> tag, pubkey |-> pubkey, kind |-> kind]
\* NostrConnectResponse::{with_result, with_error, new}
with_result(r) == [result |-> Some(r), error |-> None]
with_error(msg) == [result |-> None, error |-> Some(msg)]
new_response(result, error) == [result |-> result, error |-> error]

\* PendingNostrRequest
PendingNostrRequest(request_id, client_pubkey, request) ==
    [request_id |-> request_id, client_pubkey |-> client_pubkey, request |-> request]

\* ------------------------------------------------------- nip46/client.rs
\* Concurrent callers of request() on one session, and the ids
\* NostrConnectMessage::request draws for their requests.
Callers == {"a", "b"}
ClientRequestIds == {"q1", "q2"}

\* NostrConnectMessage: a request or a response, with its id.
NostrConnectMessage(type, id) == [type |-> type, id |-> id]
\* An event content: nip44 ciphertext of some text under the session's keys,
\* or bytes that do not decrypt; a text is the JSON of a message or is not JSON.
Json(message) == [json |-> Some(message)]
NotJson == [json |-> None]
Encrypted(text) == [plain |-> Some(text)]
Undecryptable == [plain |-> None]
\* nip44::decrypt and NostrConnectMessage::from_json: Some(..) is Ok(..)
nip44_decrypt(content) == content.plain
from_json(text) == text.json

\* An event of a relay notification; re is the id of the request its author
\* wrote it in reply to ("" if none), which the receiver cannot read off an
\* event whose content it cannot decrypt and parse.
RelayEvent(kind, pubkey, content, re) ==
    [kind |-> kind, pubkey |-> pubkey, content |-> content, re |-> re]
\* What the relay can deliver on the subscription: the signer's responses to
\* either request, a request carrying a caller's id, a reply to q1 whose
\* content does not decrypt, content that does not parse, and an event of
\* another kind.
Events ==
    {RelayEvent("NostrConnect", OtherPubkey, Encrypted(Json(NostrConnectMessage("response", i))), i) :
        i \in ClientRequestIds}
    \cup {RelayEvent("NostrConnect", OtherPubkey, Encrypted(Json(NostrConnectMessage("request", "q1"))), ""),
          RelayEvent("NostrConnect", OtherPubkey, Undecryptable, "q1"),
          RelayEvent("NostrConnect", OtherPubkey, Encrypted(NotJson), ""),
          RelayEvent("TextNote", OtherPubkey, Undecryptable, "")}

\* Result<NostrConnectMessage, RpcError> of request()
Ok(message) == [ok |-> TRUE, message |-> Some(message), error |-> ""]
Err(error) == [ok |-> FALSE, message |-> None, error |-> error]

\* A call of request(): where it stands, the id of its request, the rank of
\* its send_request among the calls, its broadcast receiver, whether the
\* subscription it made is still on the relay pool, and its result.
IdleCall ==
    [pc |-> "idle", request_id |-> "", order |-> 0, queue |-> <<>>, lagged |-> FALSE,
     subscribed |-> FALSE, result |-> None]

\* ------------------------------------------------------------------ state
VARIABLES
    sessions,      \* Nip46SessionStore.inner: session id -> Nip46Session
    used_secrets,  \* the store's set of claimed connect secrets
    now,           \* Instant::now()
    config,        \* Nip46Config: session_ttl_secs, perms
    task,          \* handle_request in flight: the listener's, and the authorize RPC's replay
    conn,          \* a nip46.connect call in flight
    uuids,         \* session ids Uuid::new_v4 has already returned
    claimed,       \* per trimmed secret, the handshakes that went on past claim_secret
    last,          \* the step just taken: its inputs, what it read and what it returned
    calls,         \* nip46/client.rs: each caller's request() in flight and its receiver
    published,     \* the events the relay has delivered from the remote signer, in order
    applied        \* a function of session.rs called on its own: its arguments and its value

serverVars == <<sessions, used_secrets, now, config, task, conn, uuids, claimed, last>>
clientVars == <<calls, published>>
vars == <<serverVars, clientVars, applied>>

Tasks == {"listener", "rpc"}

\* No function called on its own.
NotApplied ==
    [f |-> "none", requested |-> <<>>, allowed |-> <<>>, perms |-> <<>>, kind |-> 0,
     url |-> None, done |-> FALSE, filtered |-> <<>>, permitted |-> FALSE, parsed |-> None]

IdleTask == [pc |-> "idle", client |-> "", rid |-> "", req |-> NoRequest, snap |-> None]
\* run_nip46_listener has returned: the listener takes no further request.
StoppedTask == [pc |-> "stopped", client |-> "", rid |-> "", req |-> NoRequest, snap |-> None]
IdleConn == [pc |-> "idle", secret |-> None, perms |-> <<>>, connect |-> None]

\* Whether a store call that is no remove dropped the entry of id.
Evicted(before, after, id) == id \in DOMAIN before /\ id \notin DOMAIN after

\* What a step leaves in last.
Step(op, who, id, rid, req) ==
    [op |-> op, task |-> who, id |-> id, rid |-> rid, req |-> req,
     ok |-> FALSE, evicted |-> FALSE, found |-> None, pending |-> None,
     listed |-> <<>>, reply |-> None, sent |-> None, auth_url |-> None,
     connect |-> None, notification |-> ""]

Init ==
    /\ sessions = EmptyMap
    /\ used_secrets = {}
    /\ now = 0
    /\ config \in Configs
    /\ task = [h \in Tasks |-> IdleTask]
    /\ conn = IdleConn
    /\ uuids = {}
    /\ claimed = [x \in TrimmedSecrets |-> 0]
    /\ last = Step("init", "", "", "", NoRequest)
    /\ calls = [c \in Callers |-> IdleCall]
    /\ published = <<>>
    /\ applied = NotApplied


\* ------------------------------------------- transport/nostr/listener.rs
\* has_permission without its test.
has_permission_always(session, perm) == TRUE
has_permission(session, perm) == Contains(session.perms, perm)

has_sign_event_permission(session, kind) == sign_event_allowed(session.perms, kind)

\* required_perm with the nip04 permissions exchanged.
required_perm_swapped(method) ==
    CASE method = "nip04_encrypt" -> <<"nip04_decrypt">>
      [] method = "nip04_decrypt" -> <<"nip04_encrypt">>
      [] method = "nip44_encrypt" -> <<"nip44_encrypt">>
      [] method = "nip44_decrypt" -> <<"nip44_decrypt">>
\* The permission string each encrypt/decrypt arm of handle_request checks.
required_perm(method) ==
    CASE method = "nip04_encrypt" -> <<"nip04_encrypt">>
      [] method = "nip04_decrypt" -> <<"nip04_decrypt">>
      [] method = "nip44_encrypt" -> <<"nip44_encrypt">>
      [] method = "nip44_decrypt" -> <<"nip44_decrypt">>

\* The error each arm of handle_request returns when the permission is missing.
unauthorized_error(method) ==
    CASE method = "sign_event" -> <<"unauthorized", " ", "sign_event">>
      [] method = "nip04_encrypt" -> <<"unauthorized", " ", "nip04_encrypt">>
      [] method = "nip04_decrypt" -> <<"unauthorized", " ", "nip04_decrypt">>
      [] method = "nip44_encrypt" -> <<"unauthorized", " ", "nip44_encrypt">>
      [] method = "nip44_decrypt" -> <<"unauthorized", " ", "nip44_decrypt">>

\* The permission check of the arm of handle_request that serves req.
permitted(session, req) ==
    IF req.method = "sign_event"
    THEN has_sign_event_permission(session, req.kind)
    ELSE has_permission(session, required_perm(req.method))

\* auth_challenge's test: whether the request is deferred instead of executed.
auth_challenge_gated(session) == ~(~session.auth_required \/ session.authorized)

\* auth_challenge's reply: AuthUrl with the session's auth_url.
auth_url_response(session) ==
    new_response(
        Some(ResponseResult("AuthUrl", "", 0)),
        Some(IF IsSome(session.auth_url) THEN Unwrap(session.auth_url)
             ELSE <<"auth", " ", "required">>))

\* What each arm does once the session, the permission and the gate have
\* let the request through; ok is whether the signing or the cipher succeeds.
execute(req, ok) ==
    CASE req.method = "sign_event" ->
           IF req.pubkey # DaemonPubkey THEN with_error(<<"pubkey", " ", "mismatch">>)
           ELSE IF ok THEN with_result(ResponseResult("SignEvent", DaemonPubkey, req.kind))
           ELSE with_error(<<"sign_event", " ", "failed">>)
      [] req.method = "nip04_encrypt" ->
           IF ok THEN with_result(ResponseResult("Nip04Encrypt", "", 0))
           ELSE with_error(<<"nip04_encrypt", " ", "failed">>)
      [] req.method = "nip04_decrypt" ->
           IF ok THEN with_result(ResponseResult("Nip04Decrypt", "", 0))
           ELSE with_error(<<"nip04_decrypt", " ", "failed">>)
      [] req.method = "nip44_encrypt" ->
           IF ok THEN with_result(ResponseResult("Nip44Encrypt", "", 0))
           ELSE with_error(<<"nip44_encrypt", " ", "failed">>)
      [] req.method = "nip44_decrypt" ->
           IF ok THEN with_result(ResponseResult("Nip44Decrypt", "", 0))
           ELSE with_error(<<"nip44_decrypt", " ", "failed">>)

\* The Nip46Session the Connect arm builds.
listener_session(client, t) ==
    [id |-> client,
     client_pubkey |-> client,
     remote_signer_pubkey |-> DaemonPubkey,
     user_pubkey |-> Some(DaemonPubkey),
     perms |-> config.perms,
     expires_at |-> session_expires_at(config.session_ttl_secs, t),
     auth_required |-> FALSE,
     authorized |-> TRUE,
     auth_url |-> None,
     pending_request |-> None]

\* The fields of the session clone that auth_challenge still reads after its
\* await: the id it stores the pending request under and the auth_url.
Held(session) == [id |-> session.id, auth_url |-> session.auth_url]

\* handle_request returned: the map and the used secrets it leaves and its
\* response.
Returned(ss, used, snap, response) ==
    [store |-> ss, used |-> used, next |-> "idle", snap |-> snap,
     response |-> Some(response)]
\* handle_request is suspended before its next store call.
Suspended(ss, used, snap, next) ==
    [store |-> ss, used |-> used, next |-> next, snap |-> snap, response |-> None]

\* handle_connect going on whatever claim_secret returned.
handle_connect_unclaimed(ss, used, t, client, req) ==
    IF req.pubkey # DaemonPubkey
    THEN Returned(ss, used, None, with_error(<<"remote", " ", "signer", " ", "pubkey", " ", "mismatch">>))
    ELSE IF IsSome(req.secret)
    THEN LET trimmed == trim(Unwrap(req.secret))
             claim == claim_secret(used, trimmed)
         IN IF trimmed = <<>>
            THEN Returned(ss, used, None, with_error(<<"secret", " ", "is", " ", "empty">>))
            ELSE Suspended(ss, claim.used, None, "insert")
    ELSE Returned(insert(ss, listener_session(client, t)).store, used, None,
                  with_result(ResponseResult("Ack", "", 0)))
\* handle_connect without the remote signer pubkey test.
handle_connect_unchecked(ss, used, t, client, req) ==
    IF IsSome(req.secret)
    THEN LET trimmed == trim(Unwrap(req.secret))
             claim == claim_secret(used, trimmed)
         IN IF trimmed = <<>>
            THEN Returned(ss, used, None, with_error(<<"secret", " ", "is", " ", "empty">>))
            ELSE IF ~claim.result
            THEN Returned(ss, claim.used, None, with_error(<<"connect", " ", "secret", " ", "already", " ", "used">>))
            ELSE Suspended(ss, claim.used, None, "insert")
    ELSE Returned(insert(ss, listener_session(client, t)).store, used, None,
                  with_result(ResponseResult("Ack", "", 0)))
\* The Connect arm up to its first await that can find the store changed.
handle_connect(ss, used, t, client, req) ==
    IF req.pubkey # DaemonPubkey
    THEN Returned(ss, used, None, with_error(<<"remote", " ", "signer", " ", "pubkey", " ", "mismatch">>))
    ELSE IF IsSome(req.secret)
    THEN LET trimmed == trim(Unwrap(req.secret))
             claim == claim_secret(used, trimmed)
         IN IF trimmed = <<>>
            THEN Returned(ss, used, None, with_error(<<"secret", " ", "is", " ", "empty">>))
            ELSE IF ~claim.result
            THEN Returned(ss, claim.used, None, with_error(<<"connect", " ", "secret", " ", "already", " ", "used">>))
            ELSE Suspended(ss, claim.used, None, "insert")
    ELSE Returned(insert(ss, listener_session(client, t)).store, used, None,
                  with_result(ResponseResult("Ack", "", 0)))

\* The arms with auth_challenge ahead of the permission check.
handle_gated_gate_first(ss, used, t, client, req, ok) ==
    LET found == get(ss, client, t)
    IN IF found.result = None
       THEN Returned(found.store, used, None, with_error(<<"unauthorized">>))
       ELSE LET session == Unwrap(found.result)
            IN IF auth_challenge_gated(session)
               THEN Suspended(found.store, used, Some(Held(session)), "set_pending")
               ELSE IF ~permitted(session, req)
               THEN Returned(found.store, used, None,
                             with_error(unauthorized_error(req.method)))
               ELSE Returned(found.store, used, None, execute(req, ok))

\* The SignEvent and Nip04/Nip44 arms up to auth_challenge's store call.
handle_gated(ss, used, t, client, req, ok) ==
    LET found == get(ss, client, t)
    IN IF found.result = None
       THEN Returned(found.store, used, None, with_error(<<"unauthorized">>))
       ELSE LET session == Unwrap(found.result)
            IN IF ~permitted(session, req)
               THEN Returned(found.store, used, None,
                             with_error(unauthorized_error(req.method)))
               ELSE IF auth_challenge_gated(session)
               THEN Suspended(found.store, used, Some(Held(session)), "set_pending")
               ELSE Returned(found.store, used, None, execute(req, ok))

\* handle_request with session_for_client in every arm but Connect.
handle_request_session_first(ss, used, t, client, req, ok) ==
    CASE req.method = "connect" -> handle_connect(ss, used, t, client, req)
      [] req.method \in GatedMethods -> handle_gated(ss, used, t, client, req, ok)
      [] OTHER ->
           LET found == get(ss, client, t)
           IN IF found.result = None
              THEN Returned(found.store, used, None, with_error(<<"unauthorized">>))
              ELSE IF req.method = "ping"
              THEN Returned(found.store, used, None, with_result(ResponseResult("Pong", "", 0)))
              ELSE Returned(found.store, used, None,
                            with_result(ResponseResult("GetPublicKey", DaemonPubkey, 0)))

\* handle_request from its entry to its return or to the await before its
\* second store call.
handle_request(ss, used, t, client, req, ok) ==
    CASE req.method = "connect" -> handle_connect(ss, used, t, client, req)
      [] req.method = "get_public_key" ->
           Returned(ss, used, None, with_result(ResponseResult("GetPublicKey", DaemonPubkey, 0)))
      [] req.method = "ping" ->
           Returned(ss, used, None, with_result(ResponseResult("Pong", "", 0)))
      [] req.method \in GatedMethods -> handle_gated(ss, used, t, client, req, ok)

\* NostrConnectMessage::response(request_id, response) sent to the requester.
\* A reply addressed to the daemon itself.
Reply_to_self(to, rid, response) == [to |-> DaemonPubkey, id |-> rid, response |-> response]

Reply(to, rid, response) == [to |-> to, id |-> rid, response |-> response]

\* What becomes of a response once handle_request has returned it: the
\* event that carries it is built and published, built and not published
\* (the publish error is dropped), or not built.
SendOutcomes == {"published", "publish_failed", "build_failed"}

\* The task after its reply: a failed build ends run_nip46_listener with the
\* error (the ? on the builder's result) and the authorize call alike.
AfterReply(h, sent) ==
    IF h = "listener" /\ sent = "build_failed" THEN StoppedTask ELSE IdleTask

\* A task runs handle_request(client, rid, req) up to its return or its await.
Dispatch(h, op, client, rid, req, ok, sent) ==
    LET out == handle_request(sessions, used_secrets, now, client, req, ok)
    IN /\ out.next # "idle" => sent = "published"
       /\ sessions' = out.store
       /\ used_secrets' = out.used
       /\ task' = [task EXCEPT ![h] =
                     IF out.next = "idle" THEN AfterReply(h, sent)
                     ELSE [pc |-> out.next, client |-> client, rid |-> rid,
                           req |-> req, snap |-> out.snap]]
       /\ last' = [Step(op, h, client, rid, req) EXCEPT
                     !.evicted = Evicted(sessions, out.store, client),
                     !.reply = IF out.next = "idle"
                               THEN Some(Reply(client, rid, Unwrap(out.response)))
                               ELSE None,
                     !.sent = IF out.next = "idle" THEN Some(sent) ELSE None]
       /\ claimed' = IF out.next = "insert"
                     THEN [claimed EXCEPT ![trim(Unwrap(req.secret))] = @ + 1]
                     ELSE claimed
       /\ UNCHANGED <<now, config, conn, uuids, clientVars, applied>>

\* run_nip46_listener: one request received, decrypted and parsed, then
\* handle_request and, if it returned, the reply.
listener_request(client, rid, req, ok, sent) ==
    /\ task["listener"].pc = "idle"
    /\ Dispatch("listener", "request", client, rid, req, ok, sent)

\* run_nip46_listener: a notification the loop passes over with continue: a
\* lagged receiver, a notification that is no event, an event of another
\* kind, content that does not decrypt or parse, a message that is no
\* request, a request that is invalid.
SkippedNotifications ==
    {"lagged", "not_event", "other_kind", "decrypt_failed", "parse_failed",
     "not_request", "invalid_request"}
\* The loop returning on a lagged receiver as it does on a closed channel.
listener_skip_lagged_fatal(notification) ==
    /\ task["listener"].pc = "idle"
    /\ task' = [task EXCEPT !["listener"] =
                   IF notification = "lagged" THEN StoppedTask ELSE @]
    /\ last' = [Step("skip", "listener", "", "", NoRequest) EXCEPT
                  !.notification = notification]
    /\ UNCHANGED <<sessions, used_secrets, now, config, conn, uuids, claimed, clientVars, applied>>
\* The loop answering what it cannot read with an error reply.
listener_skip_replies(notification) ==
    /\ task["listener"].pc = "idle"
    /\ last' = [Step("skip", "listener", "", "", NoRequest) EXCEPT
                  !.notification = notification,
                  !.sent = Some("published"),
                  !.reply = IF notification \in {"decrypt_failed", "parse_failed", "invalid_request"}
                            THEN Some(Reply("c1", "", with_error(<<"invalid">>)))
                            ELSE None]
    /\ UNCHANGED <<sessions, used_secrets, now, config, task, conn, uuids, claimed, clientVars, applied>>
listener_skip(notification) ==
    /\ task["listener"].pc = "idle"
    /\ last' = [Step("skip", "listener", "", "", NoRequest) EXCEPT
                  !.notification = notification]
    /\ UNCHANGED <<sessions, used_secrets, now, config, task, conn, uuids, claimed, clientVars, applied>>

\* run_nip46_listener: the notification channel is closed and the loop returns.
listener_closed ==
    /\ task["listener"].pc = "idle"
    /\ task' = [task EXCEPT !["listener"] = StoppedTask]
    /\ last' = Step("closed", "listener", "", "", NoRequest)
    /\ UNCHANGED <<sessions, used_secrets, now, config, conn, uuids, claimed, clientVars, applied>>

\* The Connect arm resumed after claim_secret: the session is built and inserted.
connect_insert(h, sent) ==
    /\ task[h].pc = "insert"
    /\ sessions' = insert(sessions, listener_session(task[h].client, now)).store
    /\ task' = [task EXCEPT ![h] = AfterReply(h, sent)]
    /\ last' = [Step("connect_insert", h, task[h].client, task[h].rid, task[h].req) EXCEPT
                  !.ok = TRUE,
                  !.sent = Some(sent),
                  !.reply = Some(Reply(task[h].client, task[h].rid,
                                       with_result(ResponseResult("Ack", "", 0))))]
    /\ UNCHANGED <<used_secrets, now, config, conn, uuids, claimed, clientVars, applied>>

\* auth_challenge resumed: set_pending_request on the session it was given,
\* its result dropped, and the AuthUrl reply.
auth_challenge(h, sent) ==
    /\ task[h].pc = "set_pending"
    /\ LET session == Unwrap(task[h].snap)
           pending == PendingNostrRequest(task[h].rid, task[h].client, task[h].req)
           stored == set_pending_request(sessions, session.id, pending, now)
       IN /\ sessions' = stored.store
          /\ last' = [Step("auth_challenge", h, session.id, task[h].rid, task[h].req) EXCEPT
                        !.ok = stored.result,
                        !.evicted = Evicted(sessions, stored.store, session.id),
                        !.sent = Some(sent),
                        !.reply = Some(Reply(task[h].client, task[h].rid,
                                             auth_url_response(session)))]
    /\ task' = [task EXCEPT ![h] = AfterReply(h, sent)]
    /\ UNCHANGED <<used_secrets, now, config, conn, uuids, claimed, clientVars, applied>>


\* ------------------------------ transport/jsonrpc/methods/nip46 (the RPCs)
\* A replay that answers under a request id of its own.
replay_task_new_id(pending) ==
    [pc |-> "dispatch", client |-> pending.client_pubkey, rid |-> "new",
     req |-> pending.request, snap |-> None]

\* The replay an authorize call starts: handle_request with the pending
\* request's own requester, request id and request.
replay_task(pending) ==
    [pc |-> "dispatch", client |-> pending.client_pubkey, rid |-> pending.request_id,
     req |-> pending.request, snap |-> None]

\* nip46.session.authorize: authorize, then the replay of the pending request
\* it took, if any, through handle_request.  A call that finds nothing to
\* replay returns at once; the replay of one that does runs as task "rpc".
nip46_session_authorize(id) ==
    LET outcome == authorize(sessions, id, now)
        replay == IF IsSome(outcome.result) THEN Unwrap(outcome.result).pending ELSE None
    IN /\ IsSome(replay) => task["rpc"].pc = "idle"
       /\ sessions' = outcome.store
       /\ task' = IF IsSome(replay)
                  THEN [task EXCEPT !["rpc"] = replay_task(Unwrap(replay))]
                  ELSE task
       /\ last' = [Step("authorize", "rpc", id, "", NoRequest) EXCEPT
                     !.ok = IsSome(outcome.result), !.pending = replay,
                     !.evicted = Evicted(sessions, outcome.store, id)]
       /\ UNCHANGED <<used_secrets, now, config, conn, uuids, claimed, clientVars, applied>>

\* The replay: handle_request on the pending request, replied to its requester.
replay_request(ok, sent) ==
    /\ task["rpc"].pc = "dispatch"
    /\ Dispatch("rpc", "replay", task["rpc"].client, task["rpc"].rid, task["rpc"].req, ok, sent)

\* nip46.session.require_auth: a blank auth_url is rejected before the store
\* is called.  last keeps the auth_url given and, of a call that returned
\* true, the pending request it cleared.
nip46_session_require_auth(id, auth_url) ==
    /\ IF trim(auth_url) = <<>>
       THEN /\ last' = Step("require_auth_rejected", "", id, "", NoRequest)
            /\ UNCHANGED sessions
       ELSE LET required == require_auth(sessions, id, auth_url, now)
            IN /\ sessions' = required.store
               /\ last' = [Step("require_auth", "", id, "", NoRequest) EXCEPT
                             !.ok = required.result,
                             !.auth_url = Some(auth_url),
                             !.pending = IF required.result
                                         THEN sessions[id].pending_request ELSE None,
                             !.evicted = Evicted(sessions, required.store, id)]
    /\ UNCHANGED <<used_secrets, now, config, task, conn, uuids, claimed, clientVars, applied>>

\* nip46.session.close
nip46_session_close(id) ==
    LET closed == remove(sessions, id)
    IN /\ sessions' = closed.store
       /\ last' = [Step("remove", "", id, "", NoRequest) EXCEPT !.ok = closed.result]
       /\ UNCHANGED <<used_secrets, now, config, task, conn, uuids, claimed, clientVars, applied>>

\* nip46.session.status and the first step of every client RPC: get(session_id)
nip46_session_status(id) ==
    LET found == get(sessions, id, now)
    IN /\ sessions' = found.store
       /\ last' = [Step("get", "", id, "", NoRequest) EXCEPT
                     !.ok = IsSome(found.result), !.found = found.result,
                     !.evicted = Evicted(sessions, found.store, id)]
       /\ UNCHANGED <<used_secrets, now, config, task, conn, uuids, claimed, clientVars, applied>>

\* nip46.session.list
nip46_session_list ==
    LET listing == list(sessions, now)
    IN /\ sessions' = listing.store
       /\ last' = [Step("list", "", "", "", NoRequest) EXCEPT
                     !.ok = TRUE, !.listed = listing.result,
                     !.evicted = DOMAIN listing.store # DOMAIN sessions]
       /\ UNCHANGED <<used_secrets, now, config, task, conn, uuids, claimed, clientVars, applied>>

\* nip46.get_public_key, after the signer's answer: set_user_pubkey
nip46_get_public_key(id, pubkey) ==
    LET updated == set_user_pubkey(sessions, id, pubkey, now)
    IN /\ sessions' = updated.store
       /\ last' = [Step("set_user_pubkey", "", id, "", NoRequest) EXCEPT
                     !.ok = updated.result,
                     !.evicted = Evicted(sessions, updated.store, id)]
       /\ UNCHANGED <<used_secrets, now, config, task, conn, uuids, claimed, clientVars, applied>>

\* Permission lists a connect URL may request.
RequestedPerms ==
    { <<>>,
      << <<"sign_event", ":", "1">>, <<"nip04_encrypt">> >>,
      << <<"sign_event">>, <<"sign_event", ":", "1", "4">>, <<"nip44_encrypt">> >> }

\* The Nip46Session connect_bunker and connect_nostrconnect build.
client_session(id, requested, t) ==
    [id |-> id,
     client_pubkey |-> "k",
     remote_signer_pubkey |-> OtherPubkey,
     user_pubkey |-> None,
     perms |-> filter_perms(requested, config.perms),
     expires_at |-> session_expires_at(config.session_ttl_secs, t),
     auth_required |-> FALSE,
     authorized |-> TRUE,
     auth_url |-> None,
     pending_request |-> None]

\* What the handshake of a nip46.connect call comes to before the response
\* is validated: an error (the url or its parameters are refused, a relay is
\* not added, the Connect request is not sent, the wait times out, finds the
\* channel closed or an event it cannot read), or the signer's response.
HandshakeError(why) == [ok |-> FALSE, why |-> why, result |-> None, error |-> None]
HandshakeResponse(result, error) == [ok |-> TRUE, why |-> "", result |-> result, error |-> error]
Ack == HandshakeResponse(Some(<<"ack">>), None)
Handshakes ==
    {HandshakeError(why) :
        why \in {"invalid_params", "relay_add_failed", "request_failed", "timeout",
                 "closed", "decrypt_failed"}}
    \cup {HandshakeResponse(result, error) :
            result \in {None, Some(<<"ack">>), Some(<<"a">>), Some(<<"a", " ">>), Some(<<"z">>)},
            error \in {None, Some(<<"e">>)}}
ConnectModes == {"bunker", "nostrconnect"}

\* validate_connect_response accepting every result.
validate_connect_response_any(response, secret) ==
    IF response.error # None THEN FALSE
    ELSE response.result # None
\* validate_connect_response: TRUE is Ok(())
validate_connect_response(response, secret) ==
    IF response.error # None THEN FALSE
    ELSE IF response.result = None THEN FALSE
    ELSE IF Unwrap(response.result) = <<"ack">> THEN TRUE
    ELSE secret # None /\ Unwrap(secret) = Unwrap(response.result)

\* validate_nostrconnect_response: TRUE is Ok(())
validate_nostrconnect_response(response, secret) ==
    IF response.error # None THEN FALSE
    ELSE IF response.result = None THEN FALSE
    ELSE Unwrap(response.result) = secret

\* connect_bunker and connect_nostrconnect up to claim_secret: whether the
\* call goes on to claim its secret.
handshake_passes(mode, secret, handshake) ==
    IF ~handshake.ok THEN FALSE
    ELSE IF mode = "bunker" THEN validate_connect_response(handshake, secret)
    ELSE IF secret = None THEN FALSE
    ELSE validate_nostrconnect_response(handshake, Unwrap(secret))

\* nip46.connect: the handshake and its validation, then connect.rs's
\* claim_secret and, with no secret to claim, the insert that follows it.
nip46_connect(mode, secret, requested, handshake) ==
    /\ conn.pc = "idle"
    /\ uuids # Uuids
    /\ LET trimmed == trim(Unwrap(secret))
           claim == claim_secret(used_secrets, trimmed)
           id == CHOOSE u \in Uuids : u \notin uuids
           call == Some([mode |-> mode, handshake |-> handshake])
       IN IF ~handshake_passes(mode, secret, handshake)
          THEN /\ last' = [Step("client_connect_failed", "conn", "", "",
                                 Request("none", "", 0, secret)) EXCEPT !.connect = call]
               /\ UNCHANGED <<sessions, used_secrets, conn, uuids, claimed>>
          ELSE IF secret = None
          THEN /\ sessions' = insert(sessions, client_session(id, requested, now)).store
               /\ uuids' = uuids \cup {id}
               /\ last' = [Step("client_connect", "conn", id, "", NoRequest) EXCEPT
                             !.ok = TRUE, !.connect = call]
               /\ UNCHANGED <<used_secrets, conn, claimed>>
          ELSE IF trimmed = <<>>
          THEN /\ last' = [Step("client_connect_rejected", "conn", "", "",
                                 Request("none", "", 0, secret)) EXCEPT !.connect = call]
               /\ UNCHANGED <<sessions, used_secrets, conn, uuids, claimed>>
          ELSE /\ used_secrets' = claim.used
               /\ conn' = IF claim.result
                          THEN [pc |-> "insert", secret |-> secret, perms |-> requested,
                                connect |-> call]
                          ELSE conn
               /\ last' = [Step("client_claim", "conn", "", "", Request("none", "", 0, secret)) EXCEPT
                             !.ok = claim.result, !.connect = call]
               /\ claimed' = IF claim.result
                             THEN [claimed EXCEPT ![trimmed] = @ + 1] ELSE claimed
               /\ UNCHANGED <<sessions, uuids>>
    /\ UNCHANGED <<now, config, task, clientVars, applied>>

\* nip46.connect resumed after claim_secret: the session is built and inserted.
nip46_connect_insert ==
    /\ conn.pc = "insert"
    /\ uuids # Uuids
    /\ LET id == CHOOSE u \in Uuids : u \notin uuids
       IN /\ sessions' = insert(sessions, client_session(id, conn.perms, now)).store
          /\ uuids' = uuids \cup {id}
          /\ last' = [Step("client_connect", "conn", id, "", Request("none", "", 0, conn.secret)) EXCEPT
                        !.ok = TRUE, !.connect = conn.connect]
    /\ conn' = IdleConn
    /\ UNCHANGED <<used_secrets, now, config, task, claimed, clientVars, applied>>

\* Time passes.
Tick ==
    /\ now < MaxTime
    /\ now' = now + 1
    /\ last' = Step("tick", "", "", "", NoRequest)
    /\ UNCHANGED <<sessions, used_secrets, config, task, conn, uuids, claimed, clientVars, applied>>

\* ------------------------------------------------------- nip46/client.rs
\* send_request: the request message gets its id and is published.
send_request(c, id) ==
    /\ calls[c].pc = "idle"
    /\ \A d \in Callers : calls[d].request_id # id
    /\ calls' = [calls EXCEPT ![c] =
                    [@ EXCEPT !.pc = "sent", !.request_id = id,
                              !.order = 1 + Cardinality({d \in Callers : calls[d].pc # "idle"})]]
    /\ UNCHANGED <<serverVars, published, applied>>

\* wait_for_response up to its loop: the receiver and the subscription.
subscribe(c) ==
    /\ calls[c].pc = "sent"
    /\ calls' = [calls EXCEPT ![c] = [@ EXCEPT !.pc = "waiting", !.queue = <<>>,
                                               !.lagged = FALSE, !.subscribed = TRUE]]
    /\ UNCHANGED <<serverVars, published, applied>>

\* broadcast::Sender::send to one receiver: a full receiver loses its oldest
\* notification and will see Lagged.
broadcast_send(call, event) ==
    IF call.pc # "waiting" THEN call
    ELSE IF Len(call.queue) < ChannelCapacity
    THEN [call EXCEPT !.queue = Append(@, event)]
    ELSE [call EXCEPT !.queue = Append(Tail(@), event), !.lagged = TRUE]

\* The relay delivers an event to every receiver of the notification channel.
relay_publish(event) ==
    /\ Len(published) < MaxPublished
    /\ published' = Append(published, event)
    /\ calls' = [c \in Callers |-> broadcast_send(calls[c], event)]
    /\ UNCHANGED <<serverVars, applied>>

\* The test of the matching reply without the id.
matches_any_response(message, request_id) == message.type = "response"
\* message.is_response() && message.id() == request_id
matches(message, request_id) == message.type = "response" /\ message.id = request_id

\* The body of the recv arm of wait_for_response's select on one event:
\* None is continue, Some(r) is return r.
on_notification(event, request_id) ==
    IF event.kind # "NostrConnect" \/ event.pubkey # OtherPubkey THEN None
    ELSE LET decrypted == nip44_decrypt(event.content)
         IN IF decrypted = None THEN Some(Err("failed"))
            ELSE LET message == from_json(Unwrap(decrypted))
                 IN IF message = None THEN Some(Err("failed"))
                    ELSE IF matches(Unwrap(message), request_id)
                    THEN Some(Ok(Unwrap(message)))
                    ELSE None

\* One turn of the loop taking notifications.recv(): the matching reply is
\* returned after unsubscribe, an error by the ? as it stands.
recv(c) ==
    /\ calls[c].pc = "waiting"
    /\ calls[c].lagged \/ calls[c].queue # <<>>
    /\ calls' = [calls EXCEPT ![c] =
                    IF @.lagged THEN [@ EXCEPT !.lagged = FALSE]
                    ELSE LET outcome == on_notification(Head(@.queue), @.request_id)
                         IN IF outcome = None THEN [@ EXCEPT !.queue = Tail(@)]
                            ELSE [@ EXCEPT !.pc = "done", !.queue = <<>>, !.result = outcome,
                                           !.subscribed = ~Unwrap(outcome).ok]]
    /\ UNCHANGED <<serverVars, published, applied>>

\* The timeout arm: unsubscribe and the error.
timeout(c) ==
    /\ calls[c].pc = "waiting"
    /\ calls' = [calls EXCEPT ![c] =
                    [@ EXCEPT !.pc = "done", !.queue = <<>>, !.lagged = FALSE,
                              !.subscribed = FALSE,
                              !.result = Some(Err("response not found"))]]
    /\ UNCHANGED <<serverVars, published, applied>>

\* notifications.recv() finds the channel closed.
closed(c) ==
    /\ calls[c].pc = "waiting"
    /\ calls[c].queue = <<>> /\ ~calls[c].lagged
    /\ calls' = [calls EXCEPT ![c] =
                    [@ EXCEPT !.pc = "done", !.result = Some(Err("notification closed"))]]
    /\ UNCHANGED <<serverVars, published, applied>>

\* Whether the signing or the cipher of an executed request succeeds.
Outcomes(req) == IF req.method \in GatedMethods THEN BOOLEAN ELSE {TRUE}

\* The listener's task and the replay of an authorize call, with the
\* requests of requests and the send outcomes of sends.
Handlers(requests, sends) ==
    \/ \E c \in Requesters, rid \in RequestIds, req \in requests :
         \E ok \in Outcomes(req), sent \in sends : listener_request(c, rid, req, ok, sent)
    \/ \E h \in Tasks, sent \in sends : connect_insert(h, sent)
    \/ \E h \in Tasks, sent \in sends : auth_challenge(h, sent)
    \/ \E ok \in BOOLEAN, sent \in sends : replay_request(ok, sent)

\* The session-management RPCs, called with the session ids in ids.
SessionRpcs(ids, urls) ==
    \/ \E id \in ids : nip46_session_authorize(id)
    \/ \E id \in ids, url \in urls : nip46_session_require_auth(id, url)
    \/ \E id \in ids : nip46_session_close(id)
    \/ \E id \in ids : nip46_session_status(id)
    \/ \E id \in ids : nip46_get_public_key(id, DaemonPubkey)
    \/ nip46_session_list

\* nip46.connect calls on a bunker url whose handshake the signer answers
\* with ack.
ClientConnects ==
    \/ \E x \in {None} \cup {Some(y) : y \in Secrets}, p \in RequestedPerms :
         nip46_connect("bunker", x, p, Ack)
    \/ nip46_connect_insert

\* The daemon as a remote signer: every request of every requester, the
\* replays and the session RPCs on the requesters' sessions, every reply
\* being built and published.
Next ==
    \/ Handlers(Requests, {"published"})
    \/ SessionRpcs(Requesters, AuthUrls)
    \/ Tick

Spec == Init /\ [][Next]_vars

\* The requests of the store-wide specification: the handshakes and one
\* gated request.
StoreRequests ==
    {r \in Requests : r.method = "connect" /\ r.pubkey = DaemonPubkey}
    \cup {Request("sign_event", DaemonPubkey, 1, None)}

\* The whole store: inbound and outbound handshakes sharing the used
\* secrets, and the session RPCs on every session.
NextStore ==
    \/ Handlers(StoreRequests, {"published"})
    \/ SessionRpcs(SessionIds, AuthUrls)
    \/ ClientConnects
    \/ Tick

SpecStore == Init /\ [][NextStore]_vars

\* The requests of the session-store specification: a handshake and one
\* gated request; and its auth urls, two of them not blank.
SessionRequests ==
    {Request("connect", DaemonPubkey, 0, None), Request("sign_event", DaemonPubkey, 1, None)}
SessionAuthUrls == AuthUrls \cup {<<"g">>}

\* require_auth and list on a listener session and a client session side
\* by side: sessions that are made, hold a pending request, and expire.
NextSessions ==
    \/ \E c \in Requesters, rid \in RequestIds, req \in SessionRequests :
         listener_request(c, rid, req, TRUE, "published")
    \/ auth_challenge("listener", "published")
    \/ \E id \in SessionIds, url \in SessionAuthUrls : nip46_session_require_auth(id, url)
    \/ \E id \in SessionIds : nip46_session_authorize(id)
    \/ replay_request(TRUE, "published")
    \/ nip46_session_list
    \/ nip46_connect("bunker", None, <<>>, Ack)
    \/ Tick

SpecSessions == Init /\ [][NextSessions]_vars

\* The request ids and the requests of the auth-gate specification: one
\* requester sending a handshake and gated requests under two ids.
GateRequestIds == {"r1", "r2"}
GateRequests ==
    {Request("connect", DaemonPubkey, 0, None), Request("sign_event", DaemonPubkey, 1, None)}

\* The auth gate: the listener taking one request after the other, and the
\* require_auth, authorize and close RPCs on the requester's session.
NextGate ==
    \/ \E c \in Requesters, rid \in GateRequestIds, req \in GateRequests :
         listener_request(c, rid, req, TRUE, "published")
    \/ auth_challenge("listener", "published")
    \/ \E id \in Requesters : nip46_session_require_auth(id, <<"h">>)
    \/ \E id \in Requesters : nip46_session_authorize(id)
    \/ replay_request(TRUE, "published")
    \/ \E id \in Requesters : nip46_session_close(id)
    \/ Tick

SpecGate == Init /\ [][NextGate]_vars

\* The perms of sessions: listener sessions and client sessions of every
\* requested list, and the store calls that update a session in place.
NextHeld ==
    \/ \E c \in Requesters, rid \in RequestIds, req \in SessionRequests :
         listener_request(c, rid, req, TRUE, "published")
    \/ auth_challenge("listener", "published")
    \/ \E id \in SessionIds : nip46_session_require_auth(id, <<"h">>)
    \/ \E id \in SessionIds : nip46_session_authorize(id)
    \/ replay_request(TRUE, "published")
    \/ \E id \in SessionIds : nip46_get_public_key(id, DaemonPubkey)
    \/ \E p \in RequestedPerms : nip46_connect("bunker", None, p, Ack)
    \/ Tick

SpecHeld == Init /\ [][NextHeld]_vars

\* The notification channel on both sides: the listener's loop with what
\* it passes over and its end, and one correlated wait with its receiver.
ChannelEvents ==
    {RelayEvent("NostrConnect", OtherPubkey, Encrypted(Json(NostrConnectMessage("response", "q1"))), "q1"),
     RelayEvent("TextNote", OtherPubkey, Undecryptable, "")}
\* The request the listener of the channel specification serves: a
\* handshake with a secret, which leaves a session and a used secret.
ChannelRequests == {Request("connect", DaemonPubkey, 0, Some(<<"a">>))}
NextChannel ==
    \/ \E c \in Requesters, rid \in RequestIds, req \in ChannelRequests :
         listener_request(c, rid, req, TRUE, "published")
    \/ connect_insert("listener", "published")
    \/ \E n \in SkippedNotifications : listener_skip(n)
    \/ listener_closed
    \/ send_request("a", "q1")
    \/ subscribe("a")
    \/ \E e \in ChannelEvents : relay_publish(e)
    \/ recv("a")
    \/ timeout("a")
    \/ closed("a")

SpecChannel == Init /\ [][NextChannel]_vars

\* ------------------------------------------------- connect url parsing
\* A raw url as Url::parse leaves it: None where it does not parse, else the
\* scheme, the username ("" without one), the host, the port and the query
\* pairs in order.  A pair's value is a string of tokens, " " being white
\* space.  Of the strings in username and host position "k" is the hex of a
\* public key, "npub_k" its bech32 and "r" a host name that is no key.
Url(scheme, username, host, port, query) ==
    [scheme |-> scheme, username |-> username, host |-> host, port |-> port, query |-> query]
Pair(key, value) == [key |-> key, value |-> value]
RelayValues == {<<>>, <<" ">>, <<"w1">>, <<"w2", " ">>}
SecretValues == {<<" ">>, <<"s">>}
QueryPairs ==
    {Pair("relay", v) : v \in RelayValues} \cup {Pair("secret", v) : v \in SecretValues}
MaxQuery == 3
Queries == UNION {[1..k -> QueryPairs] : k \in 0..MaxQuery}
Authorities ==
    {[username |-> "", host |-> None, port |-> None]}
    \cup {[username |-> u, host |-> Some(h), port |-> p] :
            u \in {"", "k", "npub_k", "r"}, h \in {"k", "r"}, p \in {None, Some(8080)}}
Urls ==
    {None}
    \cup {Some(Url(scheme, a.username, a.host, a.port, query)) :
            scheme \in {"bunker", "nostrconnect", "https"}, a \in Authorities, query \in Queries}

\* Result<Nip46ConnectInfo, RpcError>; every error of the parsers is
\* RpcError::InvalidParams.  Of Nip46ConnectInfo the fields perms, name, url
\* and image, read from the query like secret, are left out.
Nip46ConnectInfo(mode, remote_signer_pubkey, client_pubkey, relays, secret) ==
    [mode |-> mode, remote_signer_pubkey |-> remote_signer_pubkey,
     client_pubkey |-> client_pubkey, relays |-> relays, secret |-> secret]
ParsedOk(info) == [ok |-> TRUE, info |-> Some(info), error |-> <<>>]
InvalidParams(msg) == [ok |-> FALSE, info |-> None, error |-> msg]

\* radroots_nostr_parse_pubkey(..) followed by to_hex(): the hex of the key
\* a hex or bech32 string names, None where the string names no key.
parse_pubkey_to_hex(raw) ==
    CASE raw = "k" -> Some("k")
      [] raw = "npub_k" -> Some("k")
      [] OTHER -> None

\* nip46/connection.rs
\* parse_relays: the values of the relay pairs that are not blank, as given.
RECURSIVE parse_relays(_)
parse_relays(query) ==
    IF query = <<>> THEN <<>>
    ELSE IF Head(query).key = "relay" /\ trim(Head(query).value) # <<>>
         THEN <<Head(query).value>> \o parse_relays(Tail(query))
         ELSE parse_relays(Tail(query))

\* parse_optional_param: the first value of the key that is not blank, trimmed.
RECURSIVE parse_optional_param(_, _)
parse_optional_param(query, key) ==
    IF query = <<>> THEN None
    ELSE IF Head(query).key = key /\ trim(Head(query).value) # <<>>
         THEN Some(trim(Head(query).value))
         ELSE parse_optional_param(Tail(query), key)

host_to_relay(url) ==
    IF url.host = None THEN None
    ELSE IF url.port = None THEN Some(<<"wss://", Unwrap(url.host)>>)
    ELSE Some(<<"wss://", Unwrap(url.host), ":">> \o to_string(Unwrap(url.port)))

\* parse_bunker_url putting the host's relay after the relay parameters.
parse_bunker_url_appends(url) ==
    IF url.host = None THEN InvalidParams(<<"missing", " ", "remote", " ", "signer">>)
    ELSE LET remote_signer_raw == IF url.username = "" THEN Unwrap(url.host) ELSE url.username
             remote_signer == parse_pubkey_to_hex(remote_signer_raw)
             relays == parse_relays(url.query)
         IN IF remote_signer = None
            THEN InvalidParams(<<"invalid", " ", "remote", " ", "signer">>)
            ELSE ParsedOk(Nip46ConnectInfo("Bunker", remote_signer, None,
                     IF url.username # "" /\ host_to_relay(url) # None
                     THEN relays \o <<Unwrap(host_to_relay(url))>> ELSE relays,
                     parse_optional_param(url.query, "secret")))

parse_bunker_url(url) ==
    IF url.host = None THEN InvalidParams(<<"missing", " ", "remote", " ", "signer">>)
    ELSE LET remote_signer_raw == IF url.username = "" THEN Unwrap(url.host) ELSE url.username
             remote_signer == parse_pubkey_to_hex(remote_signer_raw)
             relays == parse_relays(url.query)
         IN IF remote_signer = None
            THEN InvalidParams(<<"invalid", " ", "remote", " ", "signer">>)
            ELSE ParsedOk(Nip46ConnectInfo("Bunker", remote_signer, None,
                     IF url.username # "" /\ host_to_relay(url) # None
                     THEN <<Unwrap(host_to_relay(url))>> \o relays ELSE relays,
                     parse_optional_param(url.query, "secret")))

parse_nostrconnect_url(url) ==
    IF url.host = None THEN InvalidParams(<<"missing", " ", "client", " ", "pubkey">>)
    ELSE LET client_pubkey == parse_pubkey_to_hex(Unwrap(url.host))
             relays == parse_relays(url.query)
             secret == parse_optional_param(url.query, "secret")
         IN IF client_pubkey = None
            THEN InvalidParams(<<"invalid", " ", "client", " ", "pubkey">>)
            ELSE IF relays = <<>> THEN InvalidParams(<<"missing", " ", "relay">>)
            ELSE IF secret = None THEN InvalidParams(<<"missing", " ", "secret">>)
            ELSE ParsedOk(Nip46ConnectInfo("Nostrconnect", None, client_pubkey, relays, secret))

parse_connect_url(raw) ==
    IF raw = None THEN InvalidParams(<<"invalid", " ", "connect", " ", "url">>)
    ELSE CASE Unwrap(raw).scheme = "bunker" -> parse_bunker_url(Unwrap(raw))
           [] Unwrap(raw).scheme = "nostrconnect" -> parse_nostrconnect_url(Unwrap(raw))
           [] OTHER -> InvalidParams(<<"unsupported", " ", "connect", " ", "scheme">>)

\* transport/jsonrpc/nip46/connection.rs
\* The query as serde_qs reads it into Nip46ConnectQuery, for a query that
\* names each key at most once: Some(value) of the key's pair, else None.
RECURSIVE query_field(_, _)
query_field(query, key) ==
    IF query = <<>> THEN None
    ELSE IF Head(query).key = key THEN Some(Head(query).value)
    ELSE query_field(Tail(query), key)

\* relay_list on RelayParam::One(value) or None: trimmed, the empty dropped.
relay_list(relay) ==
    IF relay = None THEN <<>>
    ELSE IF trim(Unwrap(relay)) = <<>> THEN <<>>
    ELSE <<trim(Unwrap(relay))>>

jsonrpc_parse_bunker_url(url) ==
    ParsedOk(Nip46ConnectInfo("Bunker", url.host, None,
                              relay_list(query_field(url.query, "relay")),
                              query_field(url.query, "secret")))

jsonrpc_parse_nostrconnect_url(url) ==
    IF url.host = None THEN InvalidParams(<<"missing", " ", "client", " ", "pubkey">>)
    ELSE IF parse_pubkey_to_hex(Unwrap(url.host)) = None
    THEN InvalidParams(<<"invalid", " ", "client", " ", "pubkey">>)
    ELSE ParsedOk(Nip46ConnectInfo("Nostrconnect", None, url.host,
                                   relay_list(query_field(url.query, "relay")),
                                   query_field(url.query, "secret")))

jsonrpc_parse_connect_url(raw) ==
    IF raw = None THEN InvalidParams(<<"invalid", " ", "url">>)
    ELSE CASE Unwrap(raw).scheme = "bunker" -> jsonrpc_parse_bunker_url(Unwrap(raw))
           [] Unwrap(raw).scheme = "nostrconnect" -> jsonrpc_parse_nostrconnect_url(Unwrap(raw))
           [] OTHER -> InvalidParams(<<"unsupported", " ", "scheme">>)

\* The urls whose query names each key at most once.
JsonrpcUrls ==
    {raw \in Urls :
        raw # None =>
          \A i, j \in 1..Len(Unwrap(raw).query) :
              Unwrap(raw).query[i].key = Unwrap(raw).query[j].key => i = j}

\* Both parse_connect_url functions on every url within the bounds.
InitUrls ==
    /\ sessions = EmptyMap
    /\ used_secrets = {}
    /\ now = 0
    /\ config = Nip46Config(1, <<>>)
    /\ task = [h \in Tasks |-> IdleTask]
    /\ conn = IdleConn
    /\ uuids = {}
    /\ claimed = [x \in TrimmedSecrets |-> 0]
    /\ last = Step("init", "", "", "", NoRequest)
    /\ calls = [c \in Callers |-> IdleCall]
    /\ published = <<>>
    /\ \/ \E raw \in Urls :
            applied = [NotApplied EXCEPT !.f = "parse_connect_url", !.url = raw]
       \/ \E raw \in JsonrpcUrls :
            applied = [NotApplied EXCEPT !.f = "jsonrpc_parse_connect_url", !.url = raw]

apply_parse_connect_url ==
    /\ applied.f = "parse_connect_url" /\ ~applied.done
    /\ applied' = [applied EXCEPT !.done = TRUE,
                                  !.parsed = Some(parse_connect_url(applied.url))]
    /\ UNCHANGED <<serverVars, clientVars>>

apply_jsonrpc_parse_connect_url ==
    /\ applied.f = "jsonrpc_parse_connect_url" /\ ~applied.done
    /\ applied' = [applied EXCEPT !.done = TRUE,
                                  !.parsed = Some(jsonrpc_parse_connect_url(applied.url))]
    /\ UNCHANGED <<serverVars, clientVars>>

NextUrls == apply_parse_connect_url \/ apply_jsonrpc_parse_connect_url

SpecUrls == InitUrls /\ [][NextUrls]_vars

\* The requests of the grants specification: the handshake, without and
\* with a secret, and every request that needs a permission.
GrantRequests ==
    {Request("connect", DaemonPubkey, 0, None), Request("connect", DaemonPubkey, 0, Some(<<"a">>))}
    \cup {Request("sign_event", DaemonPubkey, n, None) : n \in Kinds}
    \cup {Request(m, OtherPubkey, 0, None) : m \in CryptoMethods}

\* Listener sessions and client sessions under each configured allow-list:
\* every request that needs a permission, the gate and its replay, and
\* nip46.connect with every requested permission list.
NextGrants ==
    \/ Handlers(GrantRequests, {"published"})
    \/ \E id \in Requesters : nip46_session_authorize(id)
    \/ \E id \in Requesters : nip46_session_require_auth(id, <<"h">>)
    \/ \E p \in RequestedPerms : nip46_connect("bunker", None, p, Ack)
    \/ Tick

SpecGrants == Init /\ [][NextGrants]_vars

\* nip46.connect on bunker and nostrconnect urls with every outcome of the
\* handshake, next to listener Connects that claim the same secrets.
NextConnect ==
    \/ \E mode \in ConnectModes, x \in {None} \cup {Some(y) : y \in Secrets},
          handshake \in Handshakes : nip46_connect(mode, x, <<>>, handshake)
    \/ nip46_connect_insert
    \/ \E c \in Requesters, rid \in RequestIds, y \in Secrets :
         listener_request(c, rid, Request("connect", DaemonPubkey, 0, Some(y)), TRUE, "published")
    \/ connect_insert("listener", "published")

SpecConnect == Init /\ [][NextConnect]_vars

\* The requests of the listener-loop specification.
ListenerRequests ==
    {Request("connect", DaemonPubkey, 0, None),
     Request("connect", DaemonPubkey, 0, Some(<<"a">>)),
     Request("connect", OtherPubkey, 0, None),
     Request("sign_event", DaemonPubkey, 1, None),
     Request("nip44_decrypt", OtherPubkey, 0, None),
     Request("get_public_key", OtherPubkey, 0, None),
     Request("ping", OtherPubkey, 0, None)}

\* The notifications the listener-loop specification passes over, for all
\* of SkippedNotifications: the loop leaves each by the same continue.
ListenerSkips == {"lagged", "decrypt_failed"}

\* run_nip46_listener as a loop: every notification it can receive, every
\* outcome of building and publishing a reply, and the authorize replays.
NextListener ==
    \/ Handlers(ListenerRequests, SendOutcomes)
    \/ \E n \in ListenerSkips : listener_skip(n)
    \/ listener_closed
    \/ SessionRpcs(Requesters, AuthUrls)
    \/ Tick

\* A suspended handle_request is resumed: the store's lock is granted and
\* the task is polled again.
ListenerFairness ==
    /\ \A h \in Tasks : WF_vars(\E sent \in SendOutcomes : connect_insert(h, sent))
    /\ \A h \in Tasks : WF_vars(\E sent \in SendOutcomes : auth_challenge(h, sent))
    /\ WF_vars(\E ok \in BOOLEAN, sent \in SendOutcomes : replay_request(ok, sent))

SpecListener == Init /\ [][NextListener]_vars /\ ListenerFairness

\* The client correlator: two callers of request() on one session and the
\* relay delivering the remote signer's events.
NextClient ==
    \/ \E c \in Callers, id \in ClientRequestIds : send_request(c, id)
    \/ \E c \in Callers : subscribe(c)
    \/ \E e \in Events : relay_publish(e)
    \/ \E c \in Callers : recv(c)
    \/ \E c \in Callers : timeout(c)
    \/ \E c \in Callers : closed(c)

SpecClient == Init /\ [][NextClient]_vars

\* The permission strings the functions are applied to: the blanket grant,
\* kind-scoped grants, one of them with a leading zero, and a cipher grant.
PermStrings ==
    {<<"sign_event">>, <<"sign_event", ":", "1">>, <<"sign_event", ":", "1", "4">>,
     <<"sign_event", ":", "0", "1">>, <<"nip04_encrypt">>}
PermKinds == {1, 4, 14}
MaxRequested == 3
MaxAllowed == 2
\* Vec<String> of at most n of the permission strings.
PermLists(n) == UNION {[1..k -> PermStrings] : k \in 0..n}

\* filter_perms and sign_event_allowed on every argument within the bounds.
InitPerms ==
    /\ sessions = EmptyMap
    /\ used_secrets = {}
    /\ now = 0
    /\ config = Nip46Config(1, <<>>)
    /\ task = [h \in Tasks |-> IdleTask]
    /\ conn = IdleConn
    /\ uuids = {}
    /\ claimed = [x \in TrimmedSecrets |-> 0]
    /\ last = Step("init", "", "", "", NoRequest)
    /\ calls = [c \in Callers |-> IdleCall]
    /\ published = <<>>
    /\ \/ \E requested \in PermLists(MaxRequested), allowed \in PermLists(MaxAllowed) :
            applied = [NotApplied EXCEPT !.f = "filter_perms",
                                         !.requested = requested, !.allowed = allowed]
       \/ \E perms \in PermLists(MaxRequested), kind \in PermKinds :
            applied = [NotApplied EXCEPT !.f = "sign_event_allowed",
                                         !.perms = perms, !.kind = kind]

apply_filter_perms ==
    /\ applied.f = "filter_perms" /\ ~applied.done
    /\ applied' = [applied EXCEPT !.done = TRUE,
                                  !.filtered = filter_perms(applied.requested, applied.allowed)]
    /\ UNCHANGED <<serverVars, clientVars>>

apply_sign_event_allowed ==
    /\ applied.f = "sign_event_allowed" /\ ~applied.done
    /\ applied' = [applied EXCEPT !.done = TRUE,
                                  !.permitted = sign_event_allowed(applied.perms, applied.kind)]
    /\ UNCHANGED <<serverVars, clientVars>>

NextPerms == apply_filter_perms \/ apply_sign_event_allowed

SpecPerms == InitPerms /\ [][NextPerms]_vars

\* ------------------------------------------------------------- properties
\* The session fields read directly, to state the properties independently
\* of the store's own tests.
Live(ss, id, t) ==
    id \in DOMAIN ss /\ (ss[id].expires_at = None \/ Unwrap(ss[id].expires_at) > t)
Expired(ss, id, t) ==
    id \in DOMAIN ss /\ ss[id].expires_at # None /\ Unwrap(ss[id].expires_at) <= t
Gated(ss, id) == ss[id].auth_required /\ ~ss[id].authorized
HoldsPerm(ss, id, perm) == \E i \in 1..Len(ss[id].perms) : ss[id].perms[i] = perm
\* The decimal text of the kinds of Kinds.
KindText(kind) == CASE kind = 1 -> <<"1">> [] kind = 4 -> <<"4">> [] kind = 14 -> <<"1", "4">>
\* The literal permission of each encrypt/decrypt method.
PermLiteral(method) ==
    CASE method = "nip04_encrypt" -> <<"nip04_encrypt">>
      [] method = "nip04_decrypt" -> <<"nip04_decrypt">>
      [] method = "nip44_encrypt" -> <<"nip44_encrypt">>
      [] method = "nip44_decrypt" -> <<"nip44_decrypt">>
\* Whether the session's perms let the request through.
Permits(ss, id, req) ==
    IF req.method = "sign_event"
    THEN \/ HoldsPerm(ss, id, <<"sign_event">>)
         \/ HoldsPerm(ss, id, <<"sign_event", ":">> \o KindText(req.kind))
    ELSE HoldsPerm(ss, id, PermLiteral(req.method))
\* The variant of a reply's result ("none" without one) and its error.
ResultTag(reply) ==
    IF reply # None /\ Unwrap(reply).response.result # None
    THEN Unwrap(Unwrap(reply).response.result).tag ELSE "none"
ErrorOf(reply) == IF reply # None THEN Unwrap(reply).response.error ELSE None
\* The results that carry a signed event, a ciphertext or a plaintext.
ExecutedTags == {"SignEvent", "Nip04Encrypt", "Nip04Decrypt", "Nip44Encrypt", "Nip44Decrypt"}

\* The step is handle_request dispatching a request of one of the methods.
Dispatched(methods) == last'.op \in {"request", "replay"} /\ last'.req.method \in methods
\* The step left handle_request suspended in auth_challenge, nothing replied.
Deferred == last'.reply = None /\ task'[last'.task].pc = "set_pending"
\* A permitted request dispatched on a live gated session is deferred, with
\* the session's id and auth_url kept for auth_challenge.
GateDefers ==
    (/\ Dispatched(GatedMethods)
     /\ Live(sessions, last'.id, now)
     /\ Gated(sessions, last'.id)
     /\ Permits(sessions, last'.id, last'.req))
    => /\ Deferred
       /\ sessions' = sessions
       /\ task'[last'.task].snap =
            Some([id |-> last'.id, auth_url |-> sessions[last'.id].auth_url])
\* The pending request the auth_challenge step just taken had to store.
StepPending == PendingNostrRequest(last'.rid, Unwrap(last'.reply).to, last'.req)

\* C1: a connect secret is claimed at most once: of all the handshakes,
\* listener Connects and nip46.connect calls alike, that went on past
\* claim_secret with the same trimmed secret there is exactly one if the
\* secret is in the used set and none otherwise.
C1_SecretClaimedOnce ==
    \A x \in TrimmedSecrets : claimed[x] = IF x \in used_secrets THEN 1 ELSE 0

\* A listener Connect holds the secret it claimed while a nip46.connect
\* presenting another spelling of the same trimmed secret has just lost.
C1_Witness ==
    /\ task["listener"].pc = "insert"
    /\ last.op = "client_claim" /\ ~last.ok
    /\ last.req.secret # task["listener"].req.secret
    /\ trim(Unwrap(last.req.secret)) = trim(Unwrap(task["listener"].req.secret))

\* C10: every stored session with auth_required = false has authorized = true.
C10_AuthFlags ==
    \A id \in DOMAIN sessions : ~sessions[id].auth_required => sessions[id].authorized

\* A listener session that went through require_auth and authorize next to
\* a client session that never did.
C10_Witness ==
    /\ DOMAIN sessions = {"c1", "u1"}
    /\ sessions["c1"].auth_required /\ sessions["c1"].authorized
    /\ ~sessions["u1"].auth_required
    /\ sessions["u1"].user_pubkey # None

C3_GatedNeverExecuted ==
    [][ /\ (/\ Dispatched(GatedMethods)
            /\ Live(sessions, last'.id, now)
            /\ Gated(sessions, last'.id))
           => ResultTag(last'.reply) \notin ExecutedTags
        /\ GateDefers
        /\ last'.op = "auth_challenge" =>
             /\ ResultTag(last'.reply) = "AuthUrl"
             /\ ErrorOf(last'.reply) = Unwrap(task[last'.task].snap).auth_url
             /\ IF Live(sessions, last'.id, now)
                THEN sessions'[last'.id].pending_request = Some(StepPending)
                ELSE last'.id \notin DOMAIN sessions' /\ ~last'.ok
      ]_vars

\* C3 as stated: every request deferred by the gate is answered with
\* AuthUrl and stored as the pending_request of the requester's session.
C3_AlwaysStored ==
    [][ last'.op = "auth_challenge" =>
          /\ ResultTag(last'.reply) = "AuthUrl"
          /\ last'.id \in DOMAIN sessions'
          /\ sessions'[last'.id].pending_request = Some(StepPending)
      ]_vars

\* A deferred encrypt/decrypt request was stored as pending.
C3_Witness ==
    /\ last.op = "auth_challenge" /\ last.ok
    /\ last.req.method \in CryptoMethods
    /\ sessions[last.id].pending_request # None

\* C4: a store call on a session whose expires_at has been reached returns
\* None or false, applies no change and removes the entry: get (by the RPC
\* and by the listener), set_user_pubkey, require_auth, authorize and
\* set_pending_request; list neither returns nor keeps an expired session;
\* what get returns is never expired, and get on an absent id returns None.
C4_ExpiredNeverServed ==
    [][ /\ (/\ last'.op \in {"get", "set_user_pubkey", "require_auth", "authorize",
                             "auth_challenge"}
            /\ Expired(sessions, last'.id, now))
           => /\ ~last'.ok /\ last'.found = None /\ last'.pending = None
              /\ sessions' = [i \in DOMAIN sessions \ {last'.id} |-> sessions[i]]
        /\ (Dispatched(GatedMethods) /\ Expired(sessions, last'.id, now))
           => /\ ErrorOf(last'.reply) = Some(<<"unauthorized">>)
              /\ sessions' = [i \in DOMAIN sessions \ {last'.id} |-> sessions[i]]
        /\ last'.op = "list" =>
             /\ \A i \in DOMAIN sessions : Expired(sessions, i, now) => i \notin DOMAIN sessions'
             /\ \A k \in 1..Len(last'.listed) : Live(sessions, last'.listed[k].id, now)
        /\ last'.op = "get" =>
             /\ last'.id \notin DOMAIN sessions => last'.found = None /\ sessions' = sessions
             /\ last'.found # None =>
                  Live(sessions, last'.id, now) /\ Unwrap(last'.found) = sessions[last'.id]
      ]_vars

\* get found the session expired and removed it.
C4_Witness == last.op = "get" /\ last.evicted /\ ~last.ok /\ last.id \notin DOMAIN sessions

\* C5: a call of request() returns Ok only with a response whose id is the
\* id of its own request.
C5_OwnReplyOnly ==
    \A c \in Callers :
        (calls[c].result # None /\ Unwrap(calls[c].result).ok) =>
            /\ Unwrap(Unwrap(calls[c].result).message).type = "response"
            /\ Unwrap(Unwrap(calls[c].result).message).id = calls[c].request_id

\* Both calls returned Ok, a having sent first and the reply to b having been
\* delivered first.
C5_Witness ==
    /\ \A c \in Callers : calls[c].result # None /\ Unwrap(calls[c].result).ok
    /\ calls["a"].order < calls["b"].order
    /\ \E i, j \in 1..Len(published) :
         /\ i < j
         /\ published[i].content = Encrypted(Json(NostrConnectMessage("response", calls["b"].request_id)))
         /\ published[j].content = Encrypted(Json(NostrConnectMessage("response", calls["a"].request_id)))

\* C6: handle_request answers SignEvent with a signed event only if, in the
\* state it was dispatched in, the requester's session is live, its perms
\* hold sign_event or sign_event:<kind>, it is not gated and the event's
\* pubkey is the daemon's; in every other case the reply is an error, or the
\* request is deferred and then answered with AuthUrl.
C6_SignOnlyWhenAllowed ==
    [][ /\ Dispatched({"sign_event"}) =>
             IF ResultTag(last'.reply) = "SignEvent"
             THEN /\ Live(sessions, last'.id, now)
                  /\ Permits(sessions, last'.id, last'.req)
                  /\ ~Gated(sessions, last'.id)
                  /\ last'.req.pubkey = DaemonPubkey
                  /\ Unwrap(Unwrap(last'.reply).response.result).kind = last'.req.kind
             ELSE \/ ResultTag(last'.reply) = "none" /\ ErrorOf(last'.reply) # None
                  \/ Deferred
        /\ last'.op = "auth_challenge" => ResultTag(last'.reply) = "AuthUrl"
      ]_vars

\* An event of kind 1 was signed under the permission sign_event:1.
C6_Witness ==
    /\ last.op = "request" /\ ResultTag(last.reply) = "SignEvent"
    /\ last.req.kind = 1
    /\ HoldsPerm(sessions, last.id, <<"sign_event", ":", "1">>)

\* C7: handle_request executes an encrypt/decrypt request only if the
\* requester's session is live and its perms hold the literal permission of
\* the method; without a live session the reply is the error unauthorized,
\* and with one lacking the permission it is unauthorized <perm>.
C7_CryptoNeedsLiteralPerm ==
    [][ Dispatched(CryptoMethods) =>
          /\ ResultTag(last'.reply) \in ExecutedTags =>
               /\ Live(sessions, last'.id, now)
               /\ HoldsPerm(sessions, last'.id, PermLiteral(last'.req.method))
          /\ ~Live(sessions, last'.id, now) =>
               ErrorOf(last'.reply) = Some(<<"unauthorized">>)
          /\ (/\ Live(sessions, last'.id, now)
              /\ ~HoldsPerm(sessions, last'.id, PermLiteral(last'.req.method)))
             => ErrorOf(last'.reply) =
                  Some(<<"unauthorized", " ">> \o PermLiteral(last'.req.method))
      ]_vars

\* A nip04_encrypt request was executed for a session holding nip04_encrypt.
C7_Witness ==
    /\ last.op = "request" /\ ResultTag(last.reply) = "Nip04Encrypt"
    /\ HoldsPerm(sessions, last.id, <<"nip04_encrypt">>)

\* C8: a listener Connect whose remote_signer_pubkey is not the daemon's, or
\* whose secret is present and empty after trimming, or whose trimmed secret
\* is already in the used set, is answered with an error and leaves the
\* sessions and the used secrets as they were.
C8_ConnectRejected ==
    [][ (/\ last'.op = "request" /\ last'.req.method = "connect"
         /\ \/ last'.req.pubkey # DaemonPubkey
            \/ /\ last'.req.secret # None
               /\ \/ trim(Unwrap(last'.req.secret)) = <<>>
                  \/ trim(Unwrap(last'.req.secret)) \in used_secrets)
        => /\ ResultTag(last'.reply) = "none" /\ ErrorOf(last'.reply) # None
           /\ sessions' = sessions
           /\ used_secrets' = used_secrets
           /\ task'["listener"].pc = "idle"
      ]_vars

\* A Connect was refused because its secret had been claimed before.
C8_Witness ==
    /\ last.op = "request" /\ last.req.method = "connect"
    /\ ErrorOf(last.reply) =
         Some(<<"connect", " ", "secret", " ", "already", " ", "used">>)

\* C9: when a listener Connect has been answered with Ack, the store holds
\* under the requester's id a session with that id, expires_at None for a
\* TTL of 0 and now + TTL otherwise, the configured perms, auth_required
\* false, authorized true and no pending request; the Ack goes to the
\* requester under the request's id.
C9_ConnectInserts ==
    (/\ last.req.method = "connect"
     /\ last.op = "connect_insert" \/ ResultTag(last.reply) = "Ack")
    => /\ ResultTag(last.reply) = "Ack" /\ ErrorOf(last.reply) = None
       /\ Unwrap(last.reply).to = last.id /\ Unwrap(last.reply).id = last.rid
       /\ last.id \in DOMAIN sessions
       /\ sessions[last.id].id = last.id
       /\ sessions[last.id].expires_at =
            IF config.session_ttl_secs = 0 THEN None
            ELSE Some(now + config.session_ttl_secs)
       /\ sessions[last.id].perms = config.perms
       /\ ~sessions[last.id].auth_required
       /\ sessions[last.id].authorized
       /\ sessions[last.id].pending_request = None

\* A Connect with a secret was acknowledged after its insert, at a later
\* time than the listener started, under a TTL.
C9_Witness ==
    /\ last.op = "connect_insert"
    /\ now > 0
    /\ sessions[last.id].expires_at = Some(now + 1)

\* The requester, request id and request a task's handle_request runs with.
Running(h) == [client |-> task[h].client, rid |-> task[h].rid, req |-> task[h].req]
\* The step just taken made a reply, addressed to the requester and under
\* the request id that handle_request ran with in task h.
RepliedTo(h) ==
    /\ last.task = h
    /\ last.reply # None
    /\ Unwrap(last.reply).to = last.id
    /\ Unwrap(last.reply).id = last.rid
\* The same of the step being taken, against the task as it was before.
RepliesAs(h) ==
    /\ last'.task = h
    /\ last'.reply # None
    /\ Unwrap(last'.reply).to = task[h].client
    /\ Unwrap(last'.reply).id = task[h].rid
    /\ last'.req = task[h].req
    /\ task'[h].pc \in {"idle", "stopped"}

C12_OneReplyPerRequest ==
    /\ [][  /\ last'.op = "request" =>
                /\ last'.task = "listener" /\ task["listener"].pc = "idle"
                /\ \/ /\ last'.reply # None
                      /\ Unwrap(last'.reply).to = last'.id
                      /\ Unwrap(last'.reply).id = last'.rid
                      /\ task'["listener"].pc \in {"idle", "stopped"}
                   \/ /\ last'.reply = None
                      /\ task'["listener"].pc \in {"insert", "set_pending"}
                      /\ Running("listener")' =
                           [client |-> last'.id, rid |-> last'.rid, req |-> last'.req]
            /\ (task["listener"].pc \in {"insert", "set_pending"}
                  /\ task'["listener"] # task["listener"]) => RepliesAs("listener")
            /\ (last'.task = "listener" /\ last'.reply # None) =>
                /\ task["listener"].pc \in {"idle", "insert", "set_pending"}
                /\ task'["listener"].pc \in {"idle", "stopped"}
                /\ \/ Unwrap(last'.reply).response.result # None
                   \/ Unwrap(last'.reply).response.error # None
            /\ (last'.task = "listener" /\ last'.reply = None) =>
                 last'.op \in {"request", "skip", "closed"}
          ]_vars
    /\ (task["listener"].pc \in {"insert", "set_pending"}) ~> RepliedTo("listener")

\* The listener, resumed in auth_challenge, answered the request it had
\* deferred with AuthUrl, and the publish of that reply failed.
C12_Witness ==
    /\ last.op = "auth_challenge" /\ last.task = "listener"
    /\ ResultTag(last.reply) = "AuthUrl"
    /\ Unwrap(last.reply).to = "c1" /\ Unwrap(last.reply).id = "r1"
    /\ last.sent = Some("publish_failed")

\* C13, as the specification states it: run_nip46_listener returns only
\* when the notification channel is closed.
C13_StopsOnlyWhenClosed ==
    [][ (task'["listener"].pc = "stopped" /\ task["listener"].pc # "stopped")
        => last'.op = "closed" ]_vars

\* C13, what holds of it: a notification that is passed over, a reply that
\* is an error and a reply whose publish fails leave the listener running.
C13_FailuresKeepRunning ==
    [][ (last'.task = "listener" /\ task'["listener"].pc = "stopped"
         /\ task["listener"].pc # "stopped")
        => \/ last'.op = "closed"
           \/ last'.sent = Some("build_failed") ]_vars

\* The listener has stopped on a reply whose event could not be built.
C13_Witness ==
    /\ task["listener"].pc = "stopped"
    /\ last.task = "listener" /\ last.op = "request"
    /\ last.sent = Some("build_failed")
    /\ ErrorOf(last.reply) = None
\* The call has returned the error.
Failed(c, error) == calls[c].result = Some(Err(error))

\* C14, as the specification states it: a wait that has returned an error
\* has unsubscribed its subscription.
C14_ErrorsUnsubscribed ==
    \A c \in Callers :
        (calls[c].result # None /\ ~Unwrap(calls[c].result).ok) => ~calls[c].subscribed

\* C14, what holds of it: a wait that timed out or returned the matching
\* reply has unsubscribed, and a subscription is left only by a wait that
\* returned a decrypt or parse failure or found the channel closed.
C14_TimeoutUnsubscribed ==
    \A c \in Callers :
        /\ (Failed(c, "response not found") \/ (calls[c].result # None /\ Unwrap(calls[c].result).ok))
             => ~calls[c].subscribed
        /\ (calls[c].pc = "done" /\ calls[c].subscribed)
             => Failed(c, "failed") \/ Failed(c, "notification closed")

\* One wait has returned on a closed channel and the other on content that
\* does not parse, and both subscriptions are still there.
C14_Witness ==
    /\ Failed("a", "notification closed") /\ calls["a"].subscribed
    /\ Failed("b", "failed") /\ calls["b"].subscribed
    /\ published = <<RelayEvent("NostrConnect", OtherPubkey, Encrypted(NotJson), "")>>

\* C15, as the specification states it: a wait ends with a decrypt or parse
\* failure only on the reply to its own request.
C15_OnlyOwnReplyFails ==
    [][ \A c \in Callers :
          (calls[c].pc = "waiting" /\ calls'[c].pc = "done" /\ Failed(c, "failed")')
          => Head(calls[c].queue).re = calls[c].request_id ]_vars

\* C15, what holds of it: an event of another kind and a message that
\* decrypts and parses and is not the reply are passed over: with such an
\* event next in its receiver, a wait ends only by its timeout.
C15_ParsedOthersIgnored ==
    [][ \A c \in Callers :
          (/\ calls[c].pc = "waiting" /\ ~calls[c].lagged /\ calls[c].queue # <<>>
           /\ calls'[c] # calls[c]
           /\ LET e == Head(calls[c].queue)
              IN \/ e.kind # "NostrConnect"
                 \/ /\ e.content.plain # None
                    /\ Unwrap(e.content.plain).json # None
                    /\ Unwrap(Unwrap(e.content.plain).json)
                         # NostrConnectMessage("response", calls[c].request_id))
          => calls'[c].pc = "waiting" \/ Failed(c, "response not found")' ]_vars

\* The wait for the reply to q2 has ended with an error on the reply to q1,
\* whose content did not decrypt.
C15_Witness ==
    /\ calls["b"].request_id = "q2" /\ Failed("b", "failed")
    /\ calls["a"].request_id = "q1" /\ calls["a"].pc = "waiting"
    /\ published = <<RelayEvent("NostrConnect", OtherPubkey, Undecryptable, "q1")>>
\* The permission string is a kind-scoped signing grant, "sign_event:<k>".
KindScoped(perm) == Len(perm) > 2 /\ perm[1] = "sign_event" /\ perm[2] = ":"
\* The strings of a list, and how often a string occurs in it.
Range(seq) == {seq[i] : i \in 1..Len(seq)}
Occurrences(seq, x) == Cardinality({i \in 1..Len(seq) : seq[i] = x})
\* filter_perms has been applied to requested and allowed.
Filtered == applied.f = "filter_perms" /\ applied.done

\* C16: filter_perms(requested, allowed) holds only elements of requested;
\* it is empty when allowed is empty; when allowed holds "sign_event" every
\* requested "sign_event:<k>" is kept; and a requested "sign_event" is not
\* kept when allowed holds only kind-scoped entries.
C16_FilterPermsGrants ==
    Filtered =>
        /\ Range(applied.filtered) \subseteq Range(applied.requested)
        /\ applied.allowed = <<>> => applied.filtered = <<>>
        /\ <<"sign_event">> \in Range(applied.allowed) =>
             \A perm \in Range(applied.requested) :
                 KindScoped(perm) => perm \in Range(applied.filtered)
        /\ (\A perm \in Range(applied.allowed) : KindScoped(perm)) =>
             <<"sign_event">> \notin Range(applied.filtered)

\* Under the blanket grant alone both requested kind-scoped grants were kept
\* and the cipher grant between them was dropped.
C16_Witness ==
    /\ Filtered
    /\ applied.allowed = << <<"sign_event">> >>
    /\ applied.requested =
         << <<"sign_event", ":", "1", "4">>, <<"nip04_encrypt">>, <<"sign_event", ":", "1">> >>
    /\ applied.filtered = << <<"sign_event", ":", "1", "4">>, <<"sign_event", ":", "1">> >>

\* C17, as the specification states it: the output of filter_perms keeps
\* the relative order of requested and holds no permission string twice.
C17_OrderedWithoutDuplicates ==
    Filtered =>
        /\ LET Kept(perm) == perm \in Range(applied.filtered)
           IN applied.filtered = SelectSeq(applied.requested, Kept)
        /\ \A perm \in Range(applied.filtered) : Occurrences(applied.filtered, perm) = 1

\* C17, what holds of it: the output is requested without the strings that
\* are dropped, in the order of requested, each kept string as often as
\* requested holds it.
C17_OrderKept ==
    Filtered =>
        /\ LET Kept(perm) == perm \in Range(applied.filtered)
           IN applied.filtered = SelectSeq(applied.requested, Kept)
        /\ \A perm \in Range(applied.filtered) :
             Occurrences(applied.filtered, perm) = Occurrences(applied.requested, perm)

\* A permission requested twice was granted twice.
C17_Witness ==
    /\ Filtered
    /\ applied.allowed = << <<"sign_event", ":", "1">> >>
    /\ applied.requested = << <<"sign_event", ":", "1">>, <<"sign_event", ":", "1">> >>
    /\ applied.filtered = applied.requested

\* C18: sign_event_allowed(perms, kind) is true if and only if perms holds
\* "sign_event" or the exact string "sign_event:<kind>", the kind in decimal.
C18_SignEventAllowedIff ==
    (applied.f = "sign_event_allowed" /\ applied.done) =>
        (applied.permitted <=>
            \/ <<"sign_event">> \in Range(applied.perms)
            \/ (<<"sign_event", ":">> \o KindText(applied.kind)) \in Range(applied.perms))

\* Kind 1 was refused on perms that hold grants for kind 14 and for "01".
C18_Witness ==
    /\ applied.f = "sign_event_allowed" /\ applied.done
    /\ applied.kind = 1
    /\ applied.perms = << <<"sign_event", ":", "1", "4">>, <<"sign_event", ":", "0", "1">> >>
    /\ ~applied.permitted
\* Session ids in ascending order of their strings.
IdBefore(a, b) == <<a, b>> \in {<<"c1", "c2">>, <<"c1", "u1">>, <<"c2", "u1">>}
\* The sessions of the store that have not expired.
LiveIds(ss, t) == {id \in DOMAIN ss : Live(ss, id, t)}

\* C19: list() removes every expired session from the store and returns
\* exactly the unexpired sessions, each once and as the store holds it, in
\* ascending order of id; after list() the store holds no expired entry.
C19_ListEvictsAndSorts ==
    [][ last'.op = "list" =>
          /\ DOMAIN sessions' = LiveIds(sessions, now)
          /\ \A id \in DOMAIN sessions' : sessions'[id] = sessions[id]
          /\ \A id \in DOMAIN sessions' : ~Expired(sessions', id, now')
          /\ Len(last'.listed) = Cardinality(LiveIds(sessions, now))
          /\ \A id \in LiveIds(sessions, now) :
               \E k \in 1..Len(last'.listed) : last'.listed[k] = sessions[id]
          /\ \A i, j \in 1..Len(last'.listed) :
               i < j => IdBefore(last'.listed[i].id, last'.listed[j].id)
      ]_vars

\* list() dropped the expired listener session and returned the client
\* session made after it.
C19_Witness ==
    /\ last.op = "list" /\ last.evicted
    /\ Len(last.listed) = 1 /\ last.listed[1].id = "u1"
    /\ DOMAIN sessions = {"u1"}
    /\ uuids = {"u1"}

\* The fields of a session that require_auth writes.
AuthFields == {"auth_required", "authorized", "auth_url", "pending_request"}

\* C20: require_auth(id, auth_url) on a live session sets auth_required,
\* clears authorized, stores Some(auth_url), clears the pending request,
\* leaves the session's other fields and every other session as they were
\* and returns true; on an absent or expired session it returns false and
\* every live session stays as it was.
C20_RequireAuth ==
    [][ last'.op = "require_auth" =>
          LET id == last'.id
          IN /\ Live(sessions, id, now) =>
                  /\ last'.ok
                  /\ DOMAIN sessions' = DOMAIN sessions
                  /\ sessions'[id].auth_required
                  /\ ~sessions'[id].authorized
                  /\ sessions'[id].auth_url = last'.auth_url
                  /\ last'.auth_url # None
                  /\ sessions'[id].pending_request = None
                  /\ \A f \in DOMAIN sessions[id] \ AuthFields :
                       sessions'[id][f] = sessions[id][f]
             /\ ~Live(sessions, id, now) => ~last'.ok
             /\ \A other \in LiveIds(sessions, now) \ {id} :
                  other \in DOMAIN sessions' /\ sessions'[other] = sessions[other]
      ]_vars

\* require_auth put a second auth_url on a gated session and cleared the
\* request that was pending on it, next to a client session.
C20_Witness ==
    /\ last.op = "require_auth" /\ last.ok /\ last.id = "c1"
    /\ last.pending # None
    /\ sessions["c1"].auth_url = Some(<<"g">>)
    /\ sessions["c1"].pending_request = None
    /\ "u1" \in DOMAIN sessions
\* C23: a GetPublicKey request is answered at once with the daemon's own
\* pubkey and no error, whether or not the requester has a session, and the
\* session store and the used secrets are left as they were.
C23_GetPublicKeyAlways ==
    [][ Dispatched({"get_public_key"}) =>
          /\ last'.reply # None
          /\ Unwrap(last'.reply).response =
               with_result(ResponseResult("GetPublicKey", DaemonPubkey, 0))
          /\ Unwrap(last'.reply).to = last'.id
          /\ sessions' = sessions
          /\ used_secrets' = used_secrets
      ]_vars

\* GetPublicKey was answered with the daemon's pubkey for a requester whose
\* session had expired and was still in the store.
C23_Witness ==
    /\ last.op = "request" /\ last.req.method = "get_public_key"
    /\ ResultTag(last.reply) = "GetPublicKey"
    /\ Unwrap(Unwrap(last.reply).response.result).pubkey = DaemonPubkey
    /\ Expired(sessions, last.id, now)

\* C24, as the specification states it: a Ping from a requester without a
\* live session is answered with the error "unauthorized" and not with Pong.
C24_PingNeedsSession ==
    [][ (Dispatched({"ping"}) /\ ~Live(sessions, last'.id, now)) =>
          /\ ErrorOf(last'.reply) = Some(<<"unauthorized">>)
          /\ ResultTag(last'.reply) # "Pong"
      ]_vars

\* C24, what holds of it: every Ping is answered with Pong and leaves the
\* store as it was.
C24_PingAlwaysPong ==
    [][ Dispatched({"ping"}) =>
          /\ ResultTag(last'.reply) = "Pong"
          /\ ErrorOf(last'.reply) = None
          /\ sessions' = sessions
      ]_vars

\* Ping was answered with Pong while the store held no session at all.
C24_Witness ==
    /\ last.op = "request" /\ last.req.method = "ping"
    /\ ResultTag(last.reply) = "Pong"
    /\ sessions = EmptyMap

\* C26: get(id) on a session whose expires_at is None or in the future
\* returns a clone equal to the stored session and leaves the store as it
\* was; and a session without expires_at leaves the store only by remove.
C26_LiveSessionKept ==
    [][ /\ (last'.op = "get" /\ Live(sessions, last'.id, now)) =>
              /\ last'.ok
              /\ last'.found = Some(sessions[last'.id])
              /\ sessions' = sessions
        /\ \A id \in DOMAIN sessions :
              (sessions[id].expires_at = None /\ ~(last'.op = "remove" /\ last'.id = id))
              => /\ id \in DOMAIN sessions'
                 /\ sessions'[id].expires_at = None
      ]_vars

\* get returned a session made with TTL 0 after all the time there is.
C26_Witness ==
    /\ last.op = "get" /\ last.ok
    /\ now = MaxTime
    /\ config.session_ttl_secs = 0
    /\ last.found = Some(sessions[last.id])
    /\ sessions[last.id].expires_at = None

\* C30, as the specification states it: the gate that require_auth puts on
\* a requester's live session is lifted only by an authorize call on it.
C30_GateLiftedOnlyByAuthorize ==
    [][ \A id \in DOMAIN sessions :
          (/\ Live(sessions, id, now) /\ Gated(sessions, id)
           /\ id \in DOMAIN sessions' /\ ~Gated(sessions', id))
          => last'.op = "authorize" /\ last'.id = id
      ]_vars

\* C30, what holds of it: the gate on a live session is lifted by authorize
\* or by a Connect of the requester, which puts a fresh session in its place.
C30_GateLiftedByConnectToo ==
    [][ \A id \in DOMAIN sessions :
          (/\ Live(sessions, id, now) /\ Gated(sessions, id)
           /\ id \in DOMAIN sessions' /\ ~Gated(sessions', id))
          => \/ last'.op = "authorize" /\ last'.id = id
             \/ /\ last'.op \in {"request", "connect_insert"}
                /\ last'.req.method = "connect" /\ last'.id = id
                /\ ResultTag(last'.reply) = "Ack"
      ]_vars
\* C25: no step addressed to a session or requester X changes another live
\* session Y: whatever insert, get, remove, set_user_pubkey, require_auth,
\* authorize, set_pending_request or listener request is taken on X, failing
\* or not, every other unexpired session is in the store afterwards with
\* every field as it was.
C25_OtherSessionsUntouched ==
    [][ \A y \in DOMAIN sessions :
          (Live(sessions, y, now) /\ last'.id # y)
          => y \in DOMAIN sessions' /\ sessions'[y] = sessions[y]
      ]_vars

\* A listener Connect of c1 failed on a secret already used while the
\* client session u1, gated by require_auth, was live.
C25_Witness ==
    /\ last.op = "request" /\ last.id = "c1" /\ last.req.method = "connect"
    /\ ErrorOf(last.reply) = Some(<<"connect", " ", "secret", " ", "already", " ", "used">>)
    /\ "u1" \in DOMAIN sessions /\ Live(sessions, "u1", now)
    /\ sessions["u1"].auth_required
    /\ "c1" \in DOMAIN sessions
\* The handshake the step just taken was made with, its mode and its secret.
StepConnect == Unwrap(last'.connect)
StepSecret == last'.req.secret
\* A handshake that lets a nip46.connect call through: the wait returned a
\* response without error whose result is "ack" or the secret, and for a
\* nostrconnect url the secret, which it must have.
Validated(mode, secret, handshake) ==
    /\ handshake.ok
    /\ handshake.error = None
    /\ handshake.result # None
    /\ \/ mode = "bunker" /\ handshake.result = Some(<<"ack">>)
       \/ secret # None /\ handshake.result = secret

\* C22: nip46.connect inserts a client session only after the handshake
\* response has been validated and the secret, if there is one, has been
\* claimed by this call; a call whose handshake fails or is not validated,
\* whose secret is blank or is already used, inserts no session.
C22_InsertAfterValidation ==
    [][ /\ (\E u \in Uuids : u \in DOMAIN sessions' /\ u \notin DOMAIN sessions) =>
              /\ last'.op = "client_connect" /\ last'.connect # None
              /\ Validated(StepConnect.mode, StepSecret, StepConnect.handshake)
              /\ StepSecret # None =>
                   /\ trim(Unwrap(StepSecret)) # <<>>
                   /\ trim(Unwrap(StepSecret)) \in used_secrets
                   /\ conn.pc = "insert" /\ conn.secret = StepSecret
        /\ (last'.task = "conn" /\ last'.op # "client_connect") =>
              /\ sessions' = sessions
              /\ uuids' = uuids
        /\ (/\ last'.task = "conn" /\ last'.connect # None /\ conn.pc = "idle"
            /\ \/ ~Validated(StepConnect.mode, StepSecret, StepConnect.handshake)
               \/ StepSecret # None /\ trim(Unwrap(StepSecret)) \in used_secrets \cup {<<>>})
           => /\ sessions' = sessions
              /\ conn' = conn
              /\ used_secrets' = used_secrets
        /\ (conn.pc = "idle" /\ conn'.pc = "insert") =>
              /\ last'.op = "client_claim" /\ last'.ok
              /\ trim(Unwrap(StepSecret)) \notin used_secrets
              /\ trim(Unwrap(StepSecret)) \in used_secrets'
      ]_vars

\* A nostrconnect call whose response echoed its secret claimed "a" and
\* inserted its session.
C22_Witness ==
    /\ last.op = "client_connect" /\ last.connect # None
    /\ Unwrap(last.connect).mode = "nostrconnect"
    /\ Unwrap(last.connect).handshake.result = Some(<<"a">>)
    /\ last.req.secret = Some(<<"a">>)
    /\ "u1" \in DOMAIN sessions
    /\ <<"a">> \in used_secrets
\* C21: with an empty permission allow-list no session, made by a listener
\* Connect or by nip46.connect with whatever requested perms, holds a
\* permission, and no SignEvent or encrypt/decrypt request is executed: each
\* is answered with an error.
C21_EmptyAllowListDeniesAll ==
    [][ config.perms = <<>> =>
          /\ \A id \in DOMAIN sessions' : sessions'[id].perms = <<>>
          /\ ResultTag(last'.reply) \notin ExecutedTags
          /\ Dispatched(GatedMethods) =>
               /\ last'.reply # None
               /\ ErrorOf(last'.reply) # None
               /\ ResultTag(last'.reply) = "none"
      ]_vars

\* Under the empty allow-list an encrypt request of a requester with a live
\* session was refused, next to a client session that holds no permission.
C21_Witness ==
    /\ config.perms = <<>>
    /\ last.op = "request" /\ last.req.method = "nip44_encrypt"
    /\ ErrorOf(last.reply) = Some(<<"unauthorized", " ", "nip44_encrypt">>)
    /\ Live(sessions, "c1", now)
    /\ "u1" \in DOMAIN sessions /\ sessions["u1"].perms = <<>>

\* ------------------------------------------------ properties of the parsers
\* The url a parser was applied to, and what it returned.
ParsedUrl == Unwrap(applied.url)
Parsed == Unwrap(applied.parsed)
ParsedInfo == Unwrap(Parsed.info)
ParsedAs(f, scheme) ==
    /\ applied.done /\ applied.f = f
    /\ applied.url # None /\ ParsedUrl.scheme = scheme
\* The values of a key in the query that hold a character other than white
\* space, in the query's order.
NonBlank(query, key) ==
    LET Kept(pair) == pair.key = key /\ \E i \in 1..Len(pair.value) : pair.value[i] # " "
        kept == SelectSeq(query, Kept)
    IN [i \in 1..Len(kept) |-> kept[i].value]
NostrconnectRequires(f) ==
    ParsedAs(f, "nostrconnect") =>
        /\ (NonBlank(ParsedUrl.query, "relay") = <<>> \/ NonBlank(ParsedUrl.query, "secret") = <<>>)
             => ~Parsed.ok /\ Parsed.info = None
        /\ Parsed.ok => ParsedInfo.relays # <<>> /\ ParsedInfo.secret # None

\* C27: parsing a nostrconnect url without a non-empty relay parameter or
\* without a non-empty secret parameter fails with InvalidParams, and no
\* parse of a nostrconnect url returns a descriptor whose relay list is empty
\* or whose secret is missing.
C27_NostrconnectNeedsRelayAndSecret ==
    /\ NostrconnectRequires("parse_connect_url")
    /\ NostrconnectRequires("jsonrpc_parse_connect_url")

\* What holds: the parser of nip46/connection.rs requires both.
C27_OldParserRequires == NostrconnectRequires("parse_connect_url")

\* The parser of transport/jsonrpc returned a nostrconnect descriptor with
\* no relay and no secret.
C27_Witness ==
    /\ ParsedAs("jsonrpc_parse_connect_url", "nostrconnect")
    /\ ParsedUrl.query = <<>>
    /\ Parsed.ok
    /\ ParsedInfo.relays = <<>> /\ ParsedInfo.secret = None

\* C28: every descriptor a successful parse returns, in Bunker and in
\* Nostrconnect mode, has a relay list that is not empty.
C28_RelaysNeverEmpty ==
    (applied.done /\ Parsed.ok) => ParsedInfo.relays # <<>>

\* What holds: the relay list is not empty where the parser of
\* nip46/connection.rs returns a Nostrconnect descriptor or a Bunker
\* descriptor of a url with a username.
C28_RelaysOfOldParser ==
    (applied.done /\ applied.f = "parse_connect_url" /\ Parsed.ok
       /\ (ParsedInfo.mode = "Nostrconnect" \/ ParsedUrl.username # ""))
      => ParsedInfo.relays # <<>>

\* A bare bunker url without a relay parameter parsed to a descriptor
\* without relays.
C28_Witness ==
    /\ ParsedAs("parse_connect_url", "bunker")
    /\ ParsedUrl.username = "" /\ ParsedUrl.host = Some("k")
    /\ NonBlank(ParsedUrl.query, "relay") = <<>>
    /\ Parsed.ok /\ ParsedInfo.mode = "Bunker"
    /\ ParsedInfo.relays = <<>>

\* The wss:// url of the host, with the port the url names.
WssOf(url) ==
    IF url.port = None THEN <<"wss://", Unwrap(url.host)>>
    ELSE <<"wss://", Unwrap(url.host), ":", "8", "0", "8", "0">>
\* The hex of the key a string names.
HexOf(raw) == IF raw \in {"k", "npub_k"} THEN "k" ELSE "none"

C31_PendingOnlyWhenGated ==
    \A id \in DOMAIN sessions :
        sessions[id].pending_request # None => Gated(sessions, id)

\* What holds: a pending request is stored only by an auth_challenge that
\* resumes, and handle_request is suspended in auth_challenge only by a
\* dispatch that read the session gated.
C31_StoredAfterGatedRead ==
    [][ /\ \A id \in DOMAIN sessions' :
             (/\ sessions'[id].pending_request # None
              /\ (id \notin DOMAIN sessions
                    \/ sessions[id].pending_request # sessions'[id].pending_request))
             => last'.op = "auth_challenge" /\ last'.id = id /\ last'.ok
        /\ \A h \in Tasks :
             (task'[h].pc = "set_pending" /\ task[h].pc # "set_pending")
             => /\ Dispatched(GatedMethods) /\ last'.task = h
                /\ Live(sessions, last'.id, now) /\ Gated(sessions, last'.id)
      ]_vars

\* An authorize call ran between a dispatch that read the session gated and
\* its auth_challenge: the session is authorized and holds the request.
C31_Witness ==
    /\ last.op = "auth_challenge" /\ last.ok
    /\ last.id \in DOMAIN sessions
    /\ sessions[last.id].authorized
    /\ sessions[last.id].pending_request # None

\* The pending request of a session was dropped or replaced by the step.
Displaced(id) ==
    /\ id \in DOMAIN sessions
    /\ sessions[id].pending_request # None
    /\ (id \notin DOMAIN sessions'
          \/ sessions'[id].pending_request # sessions[id].pending_request)
\* The step is an authorize that took the session's pending request and
\* started its replay under the request's own id.
TakenForReplay(id) ==
    /\ last'.op = "authorize" /\ last'.id = id
    /\ last'.pending = sessions[id].pending_request
    /\ task'["rpc"].pc = "dispatch"
    /\ task'["rpc"].rid = Unwrap(sessions[id].pending_request).request_id
\* The step is one the claim sets aside: require_auth, close, an expiry, or
\* a new handshake of the requester.
GateReset(id) ==
    \/ last'.op \in {"require_auth", "remove"} /\ last'.id = id
    \/ Expired(sessions, id, now)
    \/ last'.op \in {"request", "connect_insert"} /\ last'.req.method = "connect"

\* C32: a gated request answered with AuthUrl and stored stays the
\* session's pending request until an authorize takes it and replays it
\* under its id, unless require_auth, close or expiry come first: no
\* deferred request is lost, however many arrive before the authorize.
C32_EveryDeferredReplayed ==
    [][ \A id \in Requesters : Displaced(id) => TakenForReplay(id) \/ GateReset(id) ]_vars

\* What holds: a deferred request is replayed unless a later gated request
\* of the same session was deferred after it.
C32_LatestDeferredReplayed ==
    [][ \A id \in Requesters :
          Displaced(id) =>
            \/ TakenForReplay(id)
            \/ GateReset(id)
            \/ /\ last'.op = "auth_challenge" /\ last'.id = id /\ last'.ok
               /\ ResultTag(last'.reply) = "AuthUrl"
               /\ sessions'[id].pending_request = Some(StepPending)
      ]_vars

\* The request r1 was answered with AuthUrl and is the pending request of
\* the gated session when the listener, having read the session for the
\* request r2, is about to store r2 in its place.
C32_Witness ==
    /\ task["listener"].pc = "set_pending" /\ task["listener"].rid = "r2"
    /\ Live(sessions, "c1", now) /\ Gated(sessions, "c1")
    /\ sessions["c1"].pending_request # None
    /\ Unwrap(sessions["c1"].pending_request).request_id = "r1"

\* ------------------------------------------------ the correlator's window
\* The event is the remote signer's response to the request of the id.
IsReplyTo(event, id) ==
    /\ event.kind = "NostrConnect" /\ event.pubkey = OtherPubkey
    /\ event.content.plain # None
    /\ Unwrap(event.content.plain).json = Some(NostrConnectMessage("response", id))
\* The step is the relay delivering the response to the call's request.
ReplyBroadcast(c) ==
    /\ Len(published') = Len(published) + 1
    /\ IsReplyTo(published'[Len(published')], calls[c].request_id)
\* The call's receiver holds the response to the call's request.
HoldsReply(call) ==
    \E i \in 1..Len(call.queue) : IsReplyTo(call.queue[i], call.request_id)

\* C33: the matching reply published at any moment after the call has
\* published its request and before it has returned reaches the call: it
\* is in the call's receiver once broadcast, also when it is broadcast
\* between the publish and the creation of the receiver.
C33_ReplyNeverMissed ==
    [][ \A c \in Callers :
          (calls[c].pc \in {"sent", "waiting"} /\ ReplyBroadcast(c)) => HoldsReply(calls'[c])
      ]_vars

\* What holds: the reply broadcast once the receiver exists is in the
\* receiver, and a call that takes it from the head of its receiver returns
\* it; the reply broadcast before that reaches no receiver.
C33_ReplyKeptOnceSubscribed ==
    [][ \A c \in Callers :
          /\ (calls[c].pc = "waiting" /\ ReplyBroadcast(c)) => HoldsReply(calls'[c])
          /\ (calls[c].pc = "sent" /\ ReplyBroadcast(c)) => calls'[c] = calls[c]
          /\ (/\ calls[c].pc = "waiting" /\ ~calls[c].lagged /\ calls[c].queue # <<>>
              /\ IsReplyTo(Head(calls[c].queue), calls[c].request_id)
              /\ calls'[c] # calls[c] /\ published' = published)
             => \/ calls'[c].result = Some(Ok(NostrConnectMessage("response", calls[c].request_id)))
                \/ Failed(c, "response not found")'
      ]_vars

\* The request q1 is published, the receiver of its call is not yet
\* created, and the reply to q1 has been broadcast to no receiver.
C33_Witness ==
    /\ calls["a"].pc = "sent" /\ calls["a"].request_id = "q1"
    /\ calls["a"].queue = <<>>
    /\ calls["b"].pc = "idle"
    /\ published = <<RelayEvent("NostrConnect", OtherPubkey,
                                  Encrypted(Json(NostrConnectMessage("response", "q1"))), "q1")>>

\* ------------------------------------------- permission before the gate
\* The step changes no session's pending request into a request.
NothingStored ==
    \A id \in DOMAIN sessions' :
        sessions'[id].pending_request # None =>
            id \in DOMAIN sessions /\ sessions[id].pending_request = sessions'[id].pending_request

\* C34: a SignEvent or Nip04/Nip44 request whose permission the session
\* does not hold is answered "unauthorized <method>" at once and is not
\* stored, also when the session is auth_required and not authorized; a
\* request of a requester without a live session is answered "unauthorized"
\* and is not stored; handle_request is suspended in auth_challenge only
\* for a request the session permits, and auth_challenge stores only that
\* request.
C34_PermissionBeforeGate ==
    [][ /\ (Dispatched(GatedMethods) /\ Live(sessions, last'.id, now)
              /\ ~Permits(sessions, last'.id, last'.req))
           => /\ ErrorOf(last'.reply) = Some(<<"unauthorized", " ", last'.req.method>>)
              /\ ResultTag(last'.reply) = "none"
              /\ task'[last'.task].pc # "set_pending"
              /\ sessions' = sessions
        /\ (Dispatched(GatedMethods) /\ ~Live(sessions, last'.id, now))
           => /\ ErrorOf(last'.reply) = Some(<<"unauthorized">>)
              /\ task'[last'.task].pc # "set_pending"
              /\ NothingStored
        /\ \A h \in Tasks :
             (task'[h].pc = "set_pending" /\ task[h].pc # "set_pending")
             => /\ Dispatched(GatedMethods) /\ last'.task = h
                /\ Live(sessions, last'.id, now)
                /\ Permits(sessions, last'.id, last'.req)
                /\ task'[h].req = last'.req
        /\ ~NothingStored =>
             /\ last'.op = "auth_challenge"
             /\ sessions'[last'.id].pending_request =
                  Some(PendingNostrRequest(task[last'.task].rid, task[last'.task].client,
                                           task[last'.task].req))
      ]_vars

\* A Nip44Encrypt request the session does not permit was answered
\* unauthorized while the session is auth_required and not authorized, and
\* the session holds no pending request.
C34_Witness ==
    /\ last.op = "request" /\ last.req.method = "nip44_encrypt"
    /\ ErrorOf(last.reply) = Some(<<"unauthorized", " ", "nip44_encrypt">>)
    /\ Live(sessions, "c1", now) /\ Gated(sessions, "c1")
    /\ ~HoldsPerm(sessions, "c1", <<"nip44_encrypt">>)
    /\ sessions["c1"].pending_request = None

\* ------------------------------------------------- who creates an entry
\* The step is an insert: the Connect arm of handle_request, at once or
\* resumed after claim_secret, or nip46.connect.
InsertStep ==
    \/ last'.op \in {"request", "replay"} /\ last'.req.method = "connect"
    \/ last'.op \in {"connect_insert", "client_connect"}
\* The store calls that update a session in place.
UpdateOps == {"set_user_pubkey", "require_auth", "authorize", "auth_challenge"}

\* C35: only insert creates an entry.  remove deletes the entry and returns
\* whether there was one; set_user_pubkey, require_auth, authorize and
\* set_pending_request on an id that is absent, removed or expired return
\* false or None and leave no entry of that id, the set_pending_request of a
\* request that read the session before its removal included; so an id
\* whose get returns nothing returns a session again only after an insert.
C35_OnlyInsertCreates ==
    [][ /\ \A id \in SessionIds :
             (~Live(sessions, id, now) /\ Live(sessions', id, now')) => InsertStep
        /\ last'.op = "remove" =>
             /\ sessions' = [i \in DOMAIN sessions \ {last'.id} |-> sessions[i]]
             /\ last'.ok = (last'.id \in DOMAIN sessions)
        /\ (last'.op \in UpdateOps /\ ~Live(sessions, last'.id, now)) =>
             /\ ~last'.ok
             /\ sessions' = [i \in DOMAIN sessions \ {last'.id} |-> sessions[i]]
      ]_vars

\* The session was closed while a request that had read it was suspended
\* in auth_challenge; its set_pending_request returned false and the store
\* holds no entry.
C35_Witness ==
    /\ last.op = "auth_challenge" /\ ~last.ok /\ ~last.evicted
    /\ last.id = "c1"
    /\ sessions = EmptyMap

\* ------------------------------------------------ the perms of a session
\* The permission is in the operator's allow-list, or is kind-scoped while
\* the allow-list holds the blanket sign_event.
Granted(perm) ==
    \/ \E i \in 1..Len(config.perms) : config.perms[i] = perm
    \/ /\ \E i \in 1..Len(config.perms) : config.perms[i] = <<"sign_event">>
       /\ KindScoped(perm)

\* C36: every permission a stored session holds is literally in the
\* allow-list or is sign_event:<k> while the allow-list holds sign_event,
\* and no step but an insert changes the perms of a session: set_user_pubkey,
\* require_auth, authorize and set_pending_request leave them as created.
C36_PermsWithinAllowList ==
    [][ /\ \A id \in DOMAIN sessions' :
             \A k \in 1..Len(sessions'[id].perms) : Granted(sessions'[id].perms[k])
        /\ \A id \in DOMAIN sessions \cap DOMAIN sessions' :
             sessions'[id].perms # sessions[id].perms => InsertStep
        /\ last'.op \in UpdateOps =>
             \A id \in DOMAIN sessions \cap DOMAIN sessions' :
                 sessions'[id].perms = sessions[id].perms
      ]_vars

\* set_user_pubkey has updated a client session that holds sign_event:14
\* under the allow-list's blanket sign_event, next to a listener session.
C36_Witness ==
    /\ last.op = "set_user_pubkey" /\ last.id = "u1" /\ last.ok
    /\ sessions["u1"].perms = << <<"sign_event">>, <<"sign_event", ":", "1", "4">> >>
    /\ ~Contains(config.perms, <<"sign_event", ":", "1", "4">>)
    /\ "c1" \in DOMAIN sessions /\ sessions["c1"].perms = config.perms

\* ----------------------------------------------- the notification channel
\* The listener's step passed over a notification of one of the sorts:
\* nothing replied, the loop where it was, the store as it was.
PassedOver(sorts) ==
    (last'.op = "skip" /\ last'.notification \in sorts) =>
        /\ last'.reply = None /\ last'.sent = None
        /\ task' = task /\ task'["listener"].pc = "idle"
        /\ sessions' = sessions /\ used_secrets' = used_secrets

\* C37: a Lagged error of the notification channel is passed over: the
\* listener sends nothing, changes nothing and reads on, and a waiting call
\* reads on with its receiver as it is; a closed channel ends the listener,
\* and a waiting call whose receiver is empty ends only with an error.
C37_LaggedSkippedClosedFatal ==
    [][ /\ PassedOver({"lagged"})
        /\ last'.op = "closed" => task'["listener"].pc = "stopped"
        /\ (task["listener"].pc # "stopped" /\ task'["listener"].pc = "stopped")
             => last'.op = "closed"
        /\ \A c \in Callers :
             /\ (calls[c].pc = "waiting" /\ calls[c].lagged
                   /\ calls'[c] # calls[c] /\ published' = published)
                => \/ calls'[c] = [calls[c] EXCEPT !.lagged = FALSE]
                   \/ Failed(c, "response not found")'
             /\ (calls[c].pc = "waiting" /\ calls[c].queue = <<>> /\ ~calls[c].lagged
                   /\ calls'[c].pc = "done")
                => Failed(c, "notification closed")' \/ Failed(c, "response not found")'
      ]_vars

\* The listener has passed over a lagged receiver and reads on, while the
\* receiver of the waiting call has overflowed: its next recv is Lagged.
C37_Witness ==
    /\ last.op = "skip" /\ last.notification = "lagged"
    /\ task["listener"].pc = "idle"
    /\ calls["a"].pc = "waiting" /\ calls["a"].lagged
    /\ Len(calls["a"].queue) = ChannelCapacity
    /\ Len(published) > ChannelCapacity

\* C38: the listener sends no reply and changes no session and no used
\* secret for a notification that is no event, an event of another kind,
\* content that does not decrypt or parse, a message that is a response,
\* or a request that is invalid; it reads on.
C38_UnreadableIgnored ==
    [][ PassedOver({"not_event", "other_kind", "decrypt_failed", "parse_failed",
                    "not_request", "invalid_request"}) ]_vars

\* A message that is a response was passed over while the store holds a
\* session and a used secret: both are kept and the listener reads on.
C38_Witness ==
    /\ last.op = "skip" /\ last.notification = "not_request"
    /\ task["listener"].pc = "idle"
    /\ "c1" \in DOMAIN sessions
    /\ used_secrets = {<<"a">>}
====
